---- MODULE Spec2Model ----
(***************************************************************************)
(* dust_attenuation: the tabulated radiative-transfer model WG00, the      *)
(* range validator and the validated parameters of the attenuation models. *)
(*                                                                         *)
(* Numbers are exact.  Wavelengths in micron are fixed-point integers in   *)
(* units of 1e-4 micron (0.1 micron = 1000, 3.0001 micron = 30001), so the *)
(* Angstrom value 1e4 * x is an integer.  Optical depths are fixed-point   *)
(* integers in units of 0.25 (tau_V = 0.25 is 1, tau_V = 50.0 is 200).     *)
(* Closed-form parameters are fixed-point integers in units of 1e-3.       *)
(* Interpolated values are rationals [num, den] in lowest terms.           *)
(***************************************************************************)
EXTENDS Integers, Sequences, FiniteSets, TLC

VARIABLES data, wg, n09, last, probe, curve, thr

vars == <<data, wg, n09, last, probe, curve, thr>>

(***************************************************************************)
(* Exact rational arithmetic                                               *)
(***************************************************************************)
Abs(n) == IF n < 0 THEN -n ELSE n

RECURSIVE GCD(_, _)
GCD(a, b) == IF b = 0 THEN a ELSE GCD(b, a % b)

Rat(n, d) ==
    LET g == GCD(Abs(n), Abs(d))
        s == IF d < 0 THEN -1 ELSE 1
    IN  [num |-> (s * n) \div g, den |-> (s * d) \div g]

RatMul(a, b) == Rat(a.num * b.num, a.den * b.den)

RatLeq(a, b) == a.num * b.den <= b.num * a.den

RatAdd(a, b) == Rat(a.num * b.den + b.num * a.den, a.den * b.den)

RatSub(a, b) == Rat(a.num * b.den - b.num * a.den, a.den * b.den)

(***************************************************************************)
(* Program constants of radiative_transfer.py                              *)
(***************************************************************************)
\* x_range_WG00 = [0.1, 3.0001] micron, in units of 1e-4 micron
x_range_WG00 == <<1000, 30001>>

\* tau_V_range = [0.25, 50.0], in units of 0.25
tau_V_range == <<1, 200>>

\* number of lines between 2 models
steps == 25

\* Grid for the optical depth (0.25 ... 50.0), in units of 0.25
tau_V_grid ==
    <<1, 2, 3, 4, 6, 8, 10, 12, 14, 16, 18, 20, 22, 24, 28, 32, 36, 40,
      60, 80, 100, 120, 140, 160, 180, 200>>

\* Attx = 1.086 * taux
AttFactor == Rat(1086, 1000)

(***************************************************************************)
(* The table data source: one columnar text table per geometry.  `data`    *)
(* describes the files on disk: their row count and whether the `lambda`   *)
(* column repeats the same wavelength axis in every block.                 *)
(***************************************************************************)
Geometries == {"shell", "cloudy", "dusty"}

ColumnNames ==
    {"lambda", "tau", "tau_att_c", "tau_att_h", "f(sca)_c", "f(sca)_h",
     "f(dir)_c", "f(dir)_h", "f(esc)_c", "f(esc)_h"}

\* the wavelength samples of one block [Angstrom]
WvlAxis ==
    <<1000, 1010, 1200, 1500, 2000, 2175, 2500, 3000, 3500, 4000, 4500,
      5000, 5490, 5500, 5510, 6000, 7000, 8000, 10000, 12000, 15000,
      20000, 25000, 29990, 30000>>

ColSeed(c) ==
    CASE c = "tau" -> 1
      [] c = "tau_att_c" -> 2
      [] c = "tau_att_h" -> 3
      [] c = "f(sca)_c" -> 4
      [] c = "f(sca)_h" -> 5
      [] c = "f(dir)_c" -> 6
      [] c = "f(dir)_h" -> 7
      [] c = "f(esc)_c" -> 8
      [] c = "f(esc)_h" -> 9
      [] OTHER -> 0

GeomSeed(g) ==
    CASE g = "shell" -> 1
      [] g = "cloudy" -> 2
      [] OTHER -> 3

\* the entry of column c in the (r+1)-th row of the file of geometry g,
\* in units of 1e-3 (wavelengths in Angstrom)
Cell(d, g, c, r) ==
    IF c = "lambda"
    THEN WvlAxis[(r % Len(WvlAxis)) + 1]
         + (IF r >= 2 * Len(WvlAxis) THEN d.shift ELSE 0)
    ELSE (577 * r + 131 * ColSeed(c) + 53 * GeomSeed(g)) % 499

\* data = ascii.read(data_path + geometry + ".txt", header_start=0)
ascii_read(d, g) ==
    [c \in ColumnNames |->
        SubSeq([r \in 1..d.len_data |-> Cell(d, g, c, r - 1)], 1, d.len_data)]

(***************************************************************************)
(* Grid construction in WG00.__init__                                      *)
(***************************************************************************)
Min(a, b) == IF a < b THEN a ELSE b

\* col[a : b] of Python: rows a .. b-1 (0-based), cut at the end of col
Slice(col, a, b) == SubSeq(col, a + 1, Min(b, Len(col)))

\* faulty variant: the cursor advances by one block: both dust types are taken
RECURSIVE SliceLoop_stride(_, _, _, _)
SliceLoop_stride(col, counter, len_data, list) ==
    IF counter < len_data
    THEN SliceLoop_stride(col, counter + steps, len_data,
                          Append(list, Slice(col, counter, counter + steps)))
    ELSE list

\* the while loop: one slice of `steps` rows per pass, the cursor advancing
\* by 2 * steps
RECURSIVE SliceLoop(_, _, _, _)
SliceLoop(col, counter, len_data, list) ==
    IF counter < len_data
    THEN SliceLoop(col, counter + 2 * steps, len_data,
                   Append(list, Slice(col, counter, counter + steps)))
    ELSE list

\* np.array(list) succeeds with two dimensions iff the list is not empty
\* and all its slices have one length
IsRectangular(list) ==
    /\ Len(list) > 0
    /\ \A i \in 1..Len(list) : Len(list[i]) = Len(list[1])

\* np.array(list).T
Transpose(list) ==
    [w \in 1..Len(list[1]) |-> [t \in 1..Len(list) |-> list[t][w]]]

\* tab(gridpoints, lookup_table=..., bounds_error=False, fill_value=None,
\*     method="linear")
Tabular(points, lookup_table) ==
    [points |-> points, lookup_table |-> lookup_table]

(***************************************************************************)
(* Validated parameters (baseclasses.py, shapes.py)                        *)
(***************************************************************************)
\* faulty variant: zero is rejected
Av_validator_strict(value) ==
    IF value <= 0 THEN "parameter Av must be positive" ELSE "none"

\* BaseAttAvModel.Av validator: the message of the InputParameterError it
\* raises for the value, or "none"
Av_validator(value) ==
    IF value < 0 THEN "parameter Av must be positive" ELSE "none"

\* faulty variant: the bounds of the range are rejected
tau_V_validator_strict(value) ==
    IF ~(tau_V_range[1] < value /\ value < tau_V_range[2])
    THEN "parameter tau_V must be between 0.25 and 50.0"
    ELSE "none"

\* BaseAtttauVModel.tau_V validator: the message of the
\* InputParameterError it raises, or "none"
tau_V_validator(value) ==
    IF ~(tau_V_range[1] <= value /\ value <= tau_V_range[2])
    THEN "parameter tau_V must be between 0.25 and 50.0"
    ELSE "none"

\* the error raised with a validator's message
ParameterError(msg) == IF msg = "none" THEN "none" ELSE "InputParameterError"

(***************************************************************************)
(* WG00.__init__                                                           *)
(***************************************************************************)
\* str.lower() on the strings the clients pass
Lower(s) ==
    CASE s = "MW" -> "mw"
      [] s = "SMC" -> "smc"
      [] OTHER -> s

NoSelf == <<>>

Raise(error, msg, trace) ==
    [raised |-> error, msg |-> msg, trace |-> trace, self |-> NoSelf]

\* faulty variant: the direct fraction takes the suffix of the other
\* distribution
Colname_mixed(base, dust_distribution) ==
    IF base = "f(dir)"
    THEN IF dust_distribution = "clumpy" THEN base \o "_h"
         ELSE IF dust_distribution = "homogeneous" THEN base \o "_c"
         ELSE base
    ELSE IF dust_distribution = "clumpy" THEN base \o "_c"
    ELSE IF dust_distribution = "homogeneous" THEN base \o "_h"
    ELSE base

\* the column name of a quantity: suffixed _c or _h by the distribution,
\* left as it is for any other distribution
Colname(base, dust_distribution) ==
    IF dust_distribution = "clumpy" THEN base \o "_c"
    ELSE IF dust_distribution = "homogeneous" THEN base \o "_h"
    ELSE base

\* The constructor, statement by statement.  The result is the error it
\* raises ("none": it returns), the trace of its accesses to the data
\* source, its interpolator creations and its parameter validation, and
\* the instance it returns.
WG00_init(d, tau_V, geometry, dust_type, dust_distribution) ==
    LET geom == Lower(geometry)
        dtype == Lower(dust_type)
        ddist == Lower(dust_distribution)
    IN
    IF geom \notin Geometries
    THEN Raise("FileNotFoundError", "", <<"read">>)
    ELSE
    LET table == ascii_read(d, geom)
        start == IF dtype = "mw" THEN 0 ELSE steps
        tau_colname == "tau"
        tau_att_colname == Colname("tau_att", ddist)
        fsca_colname == Colname("f(sca)", ddist)
        fdir_colname == Colname("f(dir)", ddist)
        fesc_colname == Colname("f(esc)", ddist)
        len_data == Len(table["lambda"])
    IN
    IF dtype \notin {"mw", "smc"}
    THEN Raise("UnboundLocalError", "", <<"read">>)
    ELSE IF start < len_data /\ tau_att_colname \notin ColumnNames
    THEN Raise("KeyError", "", <<"read">>)
    ELSE
    LET tau_att_list == SliceLoop(table[tau_att_colname], start, len_data, <<>>)
        tau_list == SliceLoop(table[tau_colname], start, len_data, <<>>)
        fsca_list == SliceLoop(table[fsca_colname], start, len_data, <<>>)
        fdir_list == SliceLoop(table[fdir_colname], start, len_data, <<>>)
        fesc_list == SliceLoop(table[fesc_colname], start, len_data, <<>>)
    IN
    IF ~IsRectangular(tau_att_list)
    THEN Raise("ValueError", "", <<"read">>)
    ELSE
    LET wvl == Slice(table["lambda"], 0, 25)
        gridpoints == <<wvl, tau_V_grid>>
        self == [geometry |-> geom,
                 dust_type |-> dtype,
                 dust_distribution |-> ddist,
                 wvl_grid |-> wvl,
                 model |-> Tabular(gridpoints, Transpose(tau_att_list)),
                 tau |-> Tabular(gridpoints, Transpose(tau_list)),
                 fsca |-> Tabular(gridpoints, Transpose(fsca_list)),
                 fdir |-> Tabular(gridpoints, Transpose(fdir_list)),
                 fesc |-> Tabular(gridpoints, Transpose(fesc_list)),
                 tau_V |-> tau_V]
        built == <<"read", "tabular", "tabular", "tabular", "tabular",
                   "tabular", "validate">>
    IN
    IF tau_V_validator(tau_V) # "none"
    THEN Raise("InputParameterError", tau_V_validator(tau_V), built)
    ELSE [raised |-> "none", msg |-> "", trace |-> built, self |-> <<self>>]

(***************************************************************************)
(* Inputs: a wavelength-like input is a scalar or a vector, tagged with a  *)
(* unit or untagged.  Magnitudes are fixed-point: 1e-4 micron for          *)
(* wavelengths ("none", "micron"), 1e-2 per micron for wavenumbers.        *)
(***************************************************************************)
Vec(unit, vals) == [unit |-> unit, scalar |-> FALSE, vals |-> vals]

Scalar(unit, val) == [unit |-> unit, scalar |-> TRUE, vals |-> <<val>>]

\* faulty variant: the magnitude of a wavenumber is taken as a wavelength
ToMicron_plain(x) ==
    [x EXCEPT !.unit = "micron",
              !.vals = [i \in DOMAIN x.vals |->
                          IF x.unit = "1/micron"
                          THEN 100 * x.vals[i]
                          ELSE IF x.unit = "angstrom"
                          THEN x.vals[i] \div 10
                          ELSE x.vals[i]]]

\* u.Quantity(x, u.micron) under u.spectral(), then .value: the magnitudes
\* in micron (units of 1e-4 micron); angstrom magnitudes are in units of
\* 0.1 Angstrom
ToMicron(x) ==
    [x EXCEPT !.unit = "micron",
              !.vals = [i \in DOMAIN x.vals |->
                          IF x.unit = "1/micron"
                          THEN 1000000 \div x.vals[i]
                          ELSE IF x.unit = "angstrom"
                          THEN x.vals[i] \div 10
                          ELSE x.vals[i]]]

\* np.any
np_any(b) == \E i \in DOMAIN b : b[i]

\* faulty variant: the bounds of the range are rejected
test_valid_x_range_strict(x, x_range, outname) ==
    IF \/ np_any([i \in DOMAIN x.vals |-> x.vals[i] <= x_range[1]])
       \/ np_any([i \in DOMAIN x.vals |-> x.vals[i] >= x_range[2]])
    THEN "ValueError"
    ELSE "none"

\* helpers._test_valid_x_range: the error it raises, or "none"
test_valid_x_range(x, x_range, outname) ==
    IF \/ np_any([i \in DOMAIN x.vals |-> x.vals[i] < x_range[1]])
       \/ np_any([i \in DOMAIN x.vals |-> x.vals[i] > x_range[2]])
    THEN "ValueError"
    ELSE "none"

(***************************************************************************)
(* The tabular models: linear interpolation on a rectilinear grid with     *)
(* bounds_error=False and fill_value=None                                  *)
(***************************************************************************)
Clip(i, lo, hi) == IF i < lo THEN lo ELSE IF i > hi THEN hi ELSE i

\* the interval of the axis used for x: searchsorted(grid, x) - 1, held
\* within the first and the last interval (1-based lower index)
FindIndex(grid, x) ==
    Clip(Cardinality({k \in DOMAIN grid : grid[k] < x}), 1, Len(grid) - 1)

\* faulty variant: the query point is held at the grid boundary
Interp2_held(tab, x, y) ==
    LET xs == tab.points[1]
        ys == tab.points[2]
        v == tab.lookup_table
        xh == Clip(x, xs[1], xs[Len(xs)])
        yh == Clip(y, ys[1], ys[Len(ys)])
        i == FindIndex(xs, xh)
        j == FindIndex(ys, yh)
        dx == xs[i + 1] - xs[i]
        dy == ys[j + 1] - ys[j]
        ax == xh - xs[i]
        ay == yh - ys[j]
    IN  Rat(v[i][j] * (dx - ax) * (dy - ay) + v[i + 1][j] * ax * (dy - ay)
            + v[i][j + 1] * (dx - ax) * ay + v[i + 1][j + 1] * ax * ay,
            dx * dy)

\* faulty variant: the two weights along the wavelength axis are exchanged
Interp2_swapped(tab, x, y) ==
    LET xs == tab.points[1]
        ys == tab.points[2]
        v == tab.lookup_table
        i == FindIndex(xs, x)
        j == FindIndex(ys, y)
        dx == xs[i + 1] - xs[i]
        dy == ys[j + 1] - ys[j]
        ax == x - xs[i]
        ay == y - ys[j]
    IN  Rat(v[i][j] * ax * (dy - ay) + v[i + 1][j] * (dx - ax) * (dy - ay)
            + v[i][j + 1] * ax * ay + v[i + 1][j + 1] * (dx - ax) * ay,
            dx * dy)

\* the value of a 2-D tabular model at (x, y); with fill_value=None the
\* weights of the edge interval are used beyond the edge
Interp2(tab, x, y) ==
    LET xs == tab.points[1]
        ys == tab.points[2]
        v == tab.lookup_table
        i == FindIndex(xs, x)
        j == FindIndex(ys, y)
        dx == xs[i + 1] - xs[i]
        dy == ys[j + 1] - ys[j]
        ax == x - xs[i]
        ay == y - ys[j]
    IN  Rat(v[i][j] * (dx - ax) * (dy - ay) + v[i + 1][j] * ax * (dy - ay)
            + v[i][j + 1] * (dx - ax) * ay + v[i + 1][j + 1] * ax * ay,
            dx * dy)

\* the value of a 1-D tabular model at x
Interp1(tab, x) ==
    LET xs == tab.points[1]
        v == tab.lookup_table
        i == FindIndex(xs, x)
        dx == xs[i + 1] - xs[i]
        ax == x - xs[i]
    IN  Rat(v[i] * (dx - ax) + v[i + 1] * ax, dx)

\* the grid check of the interpolation: one value per grid point
ShapeOk2(tab) ==
    /\ Len(tab.lookup_table) = Len(tab.points[1])
    /\ \A i \in DOMAIN tab.lookup_table :
          Len(tab.lookup_table[i]) = Len(tab.points[2])

\* tab(xinterp, yinterp)
TabularCall2(tab, xinterp, yinterp) ==
    IF ~ShapeOk2(tab)
    THEN [raised |-> "ValueError", value |-> <<>>]
    ELSE [raised |-> "none",
          value |-> [k \in DOMAIN xinterp |->
                       Interp2(tab, xinterp[k], yinterp[k])]]

\* tab(xinterp) of a 1-D model
TabularCall1(tab, xinterp) ==
    IF Len(tab.lookup_table) # Len(tab.points[1])
    THEN [raised |-> "ValueError", value |-> <<>>]
    ELSE [raised |-> "none",
          value |-> [k \in DOMAIN xinterp |-> Interp1(tab, xinterp[k])]]

(***************************************************************************)
(* The query operations of WG00.  Each returns the error it raises         *)
(* ("none": it returns), the trace of its range check and interpolator     *)
(* calls, and the value it returns.                                        *)
(***************************************************************************)
Outcome(error, trace, value) ==
    [raised |-> error, msg |-> "", trace |-> trace, value |-> value]

\* 1e4 * x
xinterp_of(x) == [k \in DOMAIN x.vals |-> (10000 * x.vals[k]) \div 10000]

\* tau_V * np.ones(n_x)
yinterp_of(x, tau_V) == [k \in DOMAIN x.vals |-> tau_V]

Failure(error, msg, trace) ==
    [raised |-> error, msg |-> IF error = "none" THEN "" ELSE msg,
     trace |-> trace, value |-> <<>>]

\* faulty variant: the optical depth is returned without the conversion
WG00_evaluate_unscaled(self, xin, tau_V) ==
    LET x == ToMicron(xin)
        check == test_valid_x_range(x, x_range_WG00, "WG00")
        taux == TabularCall2(self.model, xinterp_of(x), yinterp_of(x, tau_V))
    IN  IF check # "none" THEN Outcome(check, <<"range">>, <<>>)
        ELSE IF x.scalar THEN Outcome("TypeError", <<"range">>, <<>>)
        ELSE Outcome(taux.raised, <<"range", "model">>, taux.value)

\* evaluate takes len(x) of the input as it is: a scalar has no len()
WG00_evaluate(self, xin, tau_V) ==
    LET x == ToMicron(xin)
        check == test_valid_x_range(x, x_range_WG00, "WG00")
        taux == TabularCall2(self.model, xinterp_of(x), yinterp_of(x, tau_V))
    IN  IF check # "none" THEN Outcome(check, <<"range">>, <<>>)
        ELSE IF x.scalar THEN Outcome("TypeError", <<"range">>, <<>>)
        ELSE IF taux.raised # "none"
        THEN Outcome(taux.raised, <<"range", "model">>, <<>>)
        ELSE Outcome("none", <<"range", "model">>,
                     [k \in DOMAIN taux.value |->
                        RatMul(AttFactor, taux.value[k])])

\* faulty variant: the attenuation grid is read instead of the tau grid
WG00_get_extinction_att(self, xin, tau_V) ==
    LET x == ToMicron(xin)
        check == test_valid_x_range(x, x_range_WG00, "WG00")
        r == TabularCall2(self.model, xinterp_of(x), yinterp_of(x, tau_V))
    IN  IF check # "none" THEN Outcome(check, <<"range">>, <<>>)
        ELSE IF r.raised # "none"
        THEN Outcome(r.raised, <<"range", "tau">>, <<>>)
        ELSE Outcome("none", <<"range", "tau">>,
                     [k \in DOMAIN r.value |->
                        RatMul(r.value[k], Rat(1086, 1000))])

WG00_get_extinction(self, xin, tau_V) ==
    LET x == ToMicron(xin)
        check == test_valid_x_range(x, x_range_WG00, "WG00")
        r == TabularCall2(self.tau, xinterp_of(x), yinterp_of(x, tau_V))
    IN  IF check # "none" THEN Outcome(check, <<"range">>, <<>>)
        ELSE IF r.raised # "none"
        THEN Outcome(r.raised, <<"range", "tau">>, <<>>)
        ELSE Outcome("none", <<"range", "tau">>,
                     [k \in DOMAIN r.value |->
                        RatMul(r.value[k], Rat(1086, 1000))])

\* faulty variant: the optical depth of the model is used
WG00_get_fsca_own(self, xin, tau_V) ==
    LET x == ToMicron(xin)
        check == test_valid_x_range(x, x_range_WG00, "WG00")
        r == TabularCall2(self.fsca, xinterp_of(x), yinterp_of(x, self.tau_V))
    IN  IF check # "none" THEN Outcome(check, <<"range">>, <<>>)
        ELSE Outcome(r.raised, <<"range", "fsca">>, r.value)

WG00_get_fsca(self, xin, tau_V) ==
    LET x == ToMicron(xin)
        check == test_valid_x_range(x, x_range_WG00, "WG00")
        r == TabularCall2(self.fsca, xinterp_of(x), yinterp_of(x, tau_V))
    IN  IF check # "none" THEN Outcome(check, <<"range">>, <<>>)
        ELSE Outcome(r.raised, <<"range", "fsca">>, r.value)

\* faulty variant: the scattered-fraction grid is read
WG00_get_fdir_crossed(self, xin, tau_V) ==
    LET x == ToMicron(xin)
        check == test_valid_x_range(x, x_range_WG00, "WG00")
        r == TabularCall2(self.fsca, xinterp_of(x), yinterp_of(x, tau_V))
    IN  IF check # "none" THEN Outcome(check, <<"range">>, <<>>)
        ELSE Outcome(r.raised, <<"range", "fdir">>, r.value)

WG00_get_fdir(self, xin, tau_V) ==
    LET x == ToMicron(xin)
        check == test_valid_x_range(x, x_range_WG00, "WG00")
        r == TabularCall2(self.fdir, xinterp_of(x), yinterp_of(x, tau_V))
    IN  IF check # "none" THEN Outcome(check, <<"range">>, <<>>)
        ELSE Outcome(r.raised, <<"range", "fdir">>, r.value)

\* faulty variant: the range check is left out
WG00_get_fesc_unchecked(self, xin, tau_V) ==
    LET x == ToMicron(xin)
        r == TabularCall2(self.fesc, xinterp_of(x), yinterp_of(x, tau_V))
    IN  Outcome(r.raised, <<"fesc">>, r.value)

WG00_get_fesc(self, xin, tau_V) ==
    LET x == ToMicron(xin)
        check == test_valid_x_range(x, x_range_WG00, "WG00")
        r == TabularCall2(self.fesc, xinterp_of(x), yinterp_of(x, tau_V))
    IN  IF check # "none" THEN Outcome(check, <<"range">>, <<>>)
        ELSE Outcome(r.raised, <<"range", "fesc">>, r.value)

\* albedo tables, in units of 1e-3
alb_MW ==
    <<320, 409, 481, 526, 542, 536, 503, 432, 371, 389, 437, 470, 486,
      499, 506, 498, 502, 491, 481, 500, 473, 457, 448, 424, 400>>

alb_SMC ==
    <<400, 449, 473, 494, 508, 524, 529, 528, 523, 520, 516, 511, 505,
      513, 515, 498, 494, 489, 484, 493, 475, 465, 439, 417, 400>>

\* scattering phase function tables, in units of 1e-3
g_MW ==
    <<800, 783, 767, 756, 745, 736, 727, 720, 712, 707, 702, 697, 691,
      685, 678, 646, 624, 597, 563, 545, 533, 511, 480, 445, 420>>

g_SMC ==
    <<800, 783, 767, 756, 745, 736, 727, 720, 712, 707, 702, 697, 691,
      685, 678, 646, 624, 597, 563, 545, 533, 511, 480, 445, 420>>

\* faulty variant: the table is chosen by the dust distribution
WG00_get_albedo_bydistribution(self, xin) ==
    LET x == ToMicron(xin)
        check == test_valid_x_range(x, x_range_WG00, "WG00")
        albedo == IF self.dust_distribution = "clumpy" THEN alb_SMC
                  ELSE alb_MW
        alb_fit == Tabular(<<self.wvl_grid>>, albedo)
        r == TabularCall1(alb_fit, xinterp_of(x))
    IN  IF check # "none" THEN Outcome(check, <<"range">>, <<>>)
        ELSE IF self.dust_type \notin {"smc", "mw"}
        THEN Outcome("UnboundLocalError", <<"range">>, <<>>)
        ELSE Outcome(r.raised, <<"range", "tabular", "albedo">>, r.value)

\* a dust type that is neither "smc" nor "mw" leaves the table unbound
WG00_get_albedo(self, xin) ==
    LET x == ToMicron(xin)
        check == test_valid_x_range(x, x_range_WG00, "WG00")
        albedo == IF self.dust_type = "smc" THEN alb_SMC ELSE alb_MW
        alb_fit == Tabular(<<self.wvl_grid>>, albedo)
        r == TabularCall1(alb_fit, xinterp_of(x))
    IN  IF check # "none" THEN Outcome(check, <<"range">>, <<>>)
        ELSE IF self.dust_type \notin {"smc", "mw"}
        THEN Outcome("UnboundLocalError", <<"range">>, <<>>)
        ELSE Outcome(r.raised, <<"range", "tabular", "albedo">>, r.value)

WG00_get_scattering_phase_function(self, xin) ==
    LET x == ToMicron(xin)
        check == test_valid_x_range(x, x_range_WG00, "WG00")
        g == IF self.dust_type = "smc" THEN g_SMC ELSE g_MW
        g_fit == Tabular(<<self.wvl_grid>>, g)
        r == TabularCall1(g_fit, xinterp_of(x))
    IN  IF check # "none" THEN Outcome(check, <<"range">>, <<>>)
        ELSE IF self.dust_type \notin {"smc", "mw"}
        THEN Outcome("UnboundLocalError", <<"range">>, <<>>)
        ELSE Outcome(r.raised, <<"range", "tabular", "g">>, r.value)

(***************************************************************************)
(* Exact arithmetic of any size, for the closed-form curves.  A natural    *)
(* number is the sequence of its base-1000 digits, least significant       *)
(* first, without leading zeros; a number is a fraction [neg, qn, qd] of   *)
(* two naturals with a sign.  qd = <<>> (a zero denominator) is the value  *)
(* of 0/0, which the floating-point arithmetic calls nan.                 *)
(***************************************************************************)
Limb == 1000

\* the value of an expression whose operands have been evaluated, once
\* each: Python evaluates the arguments of a call and the right-hand side
\* of an assignment before it goes on
Only(S) == CHOOSE v \in S : TRUE

Max(a, b) == IF a > b THEN a ELSE b

At(a, i) == IF i <= Len(a) THEN a[i] ELSE 0

\* the position of the most significant digit of a that is not 0
Top(a) ==
    IF \A i \in DOMAIN a : a[i] = 0 THEN 0
    ELSE CHOOSE m \in DOMAIN a :
            a[m] # 0 /\ \A j \in DOMAIN a : a[j] # 0 => j <= m

BTrim(a_) == Only({SubSeq(a, 1, Top(a)) : a \in {a_}})

\* the digits of the number whose i-th digit position holds c[i], any
\* integer: carry[i] is the carry out of position i
BCarry(c_) ==
    Only({LET carry[i \in 0..Len(c)] ==
                 IF i = 0 THEN 0 ELSE (c[i] + carry[i - 1]) \div Limb
          IN  [i \in 1..(Len(c) + 4) |->
                 IF i <= Len(c) THEN (c[i] + carry[i - 1]) % Limb
                 ELSE (carry[Len(c)] \div Limb ^ (i - Len(c) - 1)) % Limb] :
             c \in {c_}})

BNat(n) == BTrim(BCarry(<<n>>))

BAdd(a_, b_) ==
    Only({BTrim(BCarry([i \in 1..Max(Len(a), Len(b)) |->
                          At(a, i) + At(b, i)])) :
             a \in {a_}, b \in {b_}})

\* a - b for a >= b
BSub(a_, b_) ==
    Only({BTrim(BCarry([i \in 1..Max(Len(a), Len(b)) |->
                          At(a, i) - At(b, i)])) :
             a \in {a_}, b \in {b_}})

\* the sum of a[i] * b[k + 1 - i] over the positions i of a and k + 1 - i
\* of b
BConv(a, b, k) ==
    LET lo == Max(1, k + 1 - Len(b))
        hi == Min(k, Len(a))
        sum[i \in (lo - 1)..hi] ==
            IF i < lo THEN 0 ELSE sum[i - 1] + a[i] * b[k + 1 - i]
    IN  sum[hi]

BMul(a_, b_) ==
    Only({IF a = <<>> \/ b = <<>> THEN <<>>
          ELSE BTrim(BCarry([k \in 1..(Len(a) + Len(b) - 1) |->
                               BConv(a, b, k)])) :
             a \in {a_}, b \in {b_}})

BLess(a_, b_) ==
    Only({\/ Len(a) < Len(b)
          \/ /\ Len(a) = Len(b)
             /\ \E i \in 1..Len(a) :
                   a[i] < b[i] /\ \A j \in (i + 1)..Len(a) : a[j] = b[j] :
             a \in {a_}, b \in {b_}})

\* quotient and remainder of a by a small d: rem[i] is the remainder of
\* the digits above position i
BDivSmall(a_, d_) ==
    Only({LET rem[i \in 0..Len(a)] ==
                 IF i = Len(a) THEN 0
                 ELSE (rem[i + 1] * Limb + a[i + 1]) % d
          IN  [q |-> [i \in 1..Len(a) |-> (rem[i] * Limb + a[i]) \div d],
               r |-> rem[0]] :
             a \in {a_}, d \in {d_}})

\* powers of 2, 5 and 3, and the primes 7, 11, 13, 29, 97
SmallFactors ==
    <<262144, 64, 2, 390625, 125, 5, 729, 3, 7, 11, 13, 29, 97>>

\* n/d with the common factors among the small factors removed
RECURSIVE BReduce(_, _, _)
BReduce(n_, d_, i_) ==
    Only({IF i > Len(SmallFactors) \/ n = <<>> THEN <<n, d>>
          ELSE IF /\ BDivSmall(n, SmallFactors[i]).r = 0
                  /\ BDivSmall(d, SmallFactors[i]).r = 0
          THEN BReduce(BTrim(BDivSmall(n, SmallFactors[i]).q),
                       BTrim(BDivSmall(d, SmallFactors[i]).q), i)
          ELSE BReduce(n, d, i + 1) :
             n \in {n_}, d \in {d_}, i \in {i_}})

QNaN == [neg |-> FALSE, qn |-> <<>>, qd |-> <<>>]

IsNaN(a) == a.qd = <<>>

QMake(neg_, n_, d_) ==
    Only({IF d = <<>> THEN QNaN
          ELSE IF n = <<>> THEN [neg |-> FALSE, qn |-> <<>>, qd |-> <<1>>]
          ELSE Only({[neg |-> neg, qn |-> r[1], qd |-> r[2]] :
                       r \in {BReduce(n, d, 1)}}) :
             neg \in {neg_}, n \in {n_}, d \in {d_}})

\* the fraction n/d of two machine integers, d > 0
Q(n, d) == QMake(n < 0, BNat(Abs(n)), BNat(d))

QNeg(a_) ==
    Only({IF a.qn = <<>> THEN a ELSE [a EXCEPT !.neg = ~a.neg] : a \in {a_}})

QMul(a_, b_) ==
    Only({IF IsNaN(a) \/ IsNaN(b) THEN QNaN
          ELSE QMake(a.neg # b.neg, BMul(a.qn, b.qn), BMul(a.qd, b.qd)) :
             a \in {a_}, b \in {b_}})

\* a / b; x/0 for x # 0 does not occur in the curves
QDiv(a_, b_) ==
    Only({IF IsNaN(a) \/ IsNaN(b) \/ b.qn = <<>> THEN QNaN
          ELSE QMake(a.neg # b.neg, BMul(a.qn, b.qd), BMul(a.qd, b.qn)) :
             a \in {a_}, b \in {b_}})

QAdd(a_, b_) ==
    Only({IF IsNaN(a) \/ IsNaN(b) THEN QNaN
          ELSE Only({IF a.neg = b.neg THEN QMake(a.neg, BAdd(x, y), d)
                     ELSE IF BLess(x, y) THEN QMake(b.neg, BSub(y, x), d)
                     ELSE QMake(a.neg, BSub(x, y), d) :
                        x \in {BMul(a.qn, b.qd)}, y \in {BMul(b.qn, a.qd)},
                        d \in {BMul(a.qd, b.qd)}}) :
             a \in {a_}, b \in {b_}})

QSub(a, b) == QAdd(a, QNeg(b))

\* equality of the numbers, whatever their representation; nan equals
\* nothing
QEq(a_, b_) ==
    Only({/\ ~IsNaN(a)
          /\ ~IsNaN(b)
          /\ a.neg = b.neg
          /\ BMul(a.qn, b.qd) = BMul(b.qn, a.qd) : a \in {a_}, b \in {b_}})

QIsZero(a_) == Only({~IsNaN(a) /\ a.qn = <<>> : a \in {a_}})

RECURSIVE QPow(_, _)
QPow(a_, n_) ==
    Only({IF n = 0 THEN Q(1, 1) ELSE QMul(a, QPow(a, n - 1)) :
             a \in {a_}, n \in {n_}})

(***************************************************************************)
(* The closed-form curves C00 and L02 (averages.py), N09 and SBL18         *)
(* (shapes.py).  Each operation returns the error it raises, the trace of  *)
(* the range checks and formulas it went through, and its value.           *)
(***************************************************************************)
x_range_C00 == <<1200, 22000>>

x_range_L02 == <<970, 1800>>

x_range_N09 == <<970, 22000>>

x_range_SBL18 == <<970, 22000>>

\* C00.Rv, L02.Rv and N09.Rv_C00
Rv == Q(405, 100)

\* a wavelength of the model (1e-4 micron) and a parameter (1e-4), as numbers
Micron(v) == Q(v, 10000)

Param(v) == Q(v, 10000)

\* the uv2vis and nir formulas of C00.k_lambda
C00_uv2vis(x_) ==
    Only({QAdd(QMul(Q(2659, 1000),
                    QAdd(QSub(QAdd(Q(-2156, 1000),
                                   QDiv(QMul(Q(1509, 1000), Q(1, 1)), x)),
                              QDiv(QMul(Q(198, 1000), Q(1, 1)), QPow(x, 2))),
                         QDiv(QMul(Q(11, 1000), Q(1, 1)), QPow(x, 3)))),
               Rv) : x \in {x_}})

C00_nir(x) ==
    QAdd(QMul(Q(2659, 1000),
              QAdd(Q(-1857, 1000), QDiv(QMul(Q(1040, 1000), Q(1, 1)), x))),
         Rv)

\* faulty variant: the near-infrared branch includes its upper end 2.2
C00_k_lambda_closed(xin) ==
    Only({IF check # "none" THEN Outcome(check, <<"C00.range">>, <<>>)
          ELSE IF x.scalar THEN Outcome("TypeError", <<"C00.range">>, <<>>)
          ELSE Outcome("none", <<"C00.range", "C00.k_lambda">>,
                      [k \in DOMAIN x.vals |->
                         IF 1200 <= x.vals[k] /\ x.vals[k] < 6300
                         THEN C00_uv2vis(Micron(x.vals[k]))
                         ELSE IF 6300 <= x.vals[k] /\ x.vals[k] <= 22000
                         THEN C00_nir(Micron(x.vals[k]))
                         ELSE Q(0, 1)]) :
             x \in {ToMicron(xin)},
             check \in {test_valid_x_range(ToMicron(xin), x_range_C00,
                                           "C00")}})

\* C00.k_lambda: np.zeros(n_x) filled on the two index ranges
C00_k_lambda(xin) ==
    Only({IF check # "none" THEN Outcome(check, <<"C00.range">>, <<>>)
          ELSE IF x.scalar THEN Outcome("TypeError", <<"C00.range">>, <<>>)
          ELSE Outcome("none", <<"C00.range", "C00.k_lambda">>,
                      [k \in DOMAIN x.vals |->
                         IF 1200 <= x.vals[k] /\ x.vals[k] < 6300
                         THEN C00_uv2vis(Micron(x.vals[k]))
                         ELSE IF 6300 <= x.vals[k] /\ x.vals[k] < 22000
                         THEN C00_nir(Micron(x.vals[k]))
                         ELSE Q(0, 1)]) :
             x \in {ToMicron(xin)},
             check \in {test_valid_x_range(ToMicron(xin), x_range_C00,
                                           "C00")}})

\* k_lambda / Rv * Av on every element
ScaleByAv(k_, Av_) ==
    Only({[i \in DOMAIN k |-> QMul(QDiv(k[i], Rv), Av)] :
             k \in {k_}, Av \in {Param(Av_)}})

\* C00.evaluate
C00_evaluate(xin, Av) ==
    Only({IF check # "none" THEN Outcome(check, <<"C00.range">>, <<>>)
          ELSE IF k.raised # "none"
          THEN Outcome(k.raised, <<"C00.range">> \o k.trace, <<>>)
          ELSE Outcome("none", <<"C00.range">> \o k.trace,
                      ScaleByAv(k.value, Av)) :
             check \in {test_valid_x_range(ToMicron(xin), x_range_C00,
                                           "C00")},
             k \in {C00_k_lambda(ToMicron(xin))}})

\* the formula of L02.k_lambda
L02_formula(x_) ==
    Only({QAdd(Q(5472, 1000),
               QAdd(QSub(QDiv(QMul(Q(671, 1000), Q(1, 1)), x),
                         QDiv(QMul(Q(9218, 1000), Q(1, 1000)), QPow(x, 2))),
                    QDiv(QMul(Q(2620, 1000), Q(1, 1000)), QPow(x, 3)))) :
             x \in {x_}})

\* L02.k_lambda: array arithmetic, a scalar goes through as it is
L02_k_lambda(xin) ==
    Only({IF check # "none" THEN Outcome(check, <<"L02.range">>, <<>>)
          ELSE Outcome("none", <<"L02.range", "L02.k_lambda">>,
                      [k \in DOMAIN x.vals |->
                         L02_formula(Micron(x.vals[k]))]) :
             x \in {ToMicron(xin)},
             check \in {test_valid_x_range(ToMicron(xin), x_range_L02,
                                           "L02")}})

\* L02.evaluate
L02_evaluate(xin, Av) ==
    Only({IF check # "none" THEN Outcome(check, <<"L02.range">>, <<>>)
          ELSE IF k.raised # "none"
          THEN Outcome(k.raised, <<"L02.range">> \o k.trace, <<>>)
          ELSE Outcome("none", <<"L02.range">> \o k.trace,
                      ScaleByAv(k.value, Av)) :
             check \in {test_valid_x_range(ToMicron(xin), x_range_L02,
                                           "L02")},
             k \in {L02_k_lambda(ToMicron(xin))}})

\* N09.uv_bump: the Drude profile; 0/0 is nan
uv_bump(x_, x0_, gamma_, ampl_) ==
    Only({QMul(ampl,
               QDiv(QMul(x2, gamma2),
                    QAdd(QPow(QSub(x2, QPow(x0, 2)), 2),
                         QMul(x2, gamma2)))) :
             x2 \in {QPow(x_, 2)}, x0 \in {x0_}, gamma2 \in {QPow(gamma_, 2)},
             ampl \in {ampl_}})

\* N09.power_law: (x / 0.55)**slope, for the whole-number slopes (slope is
\* in units of 1e-4) that the model is run with
power_law(x, slope) ==
    IF slope >= 0
    THEN QPow(QDiv(x, Q(55, 100)), slope \div 10000)
    ELSE QDiv(Q(1, 1), QPow(QDiv(x, Q(55, 100)), (0 - slope) \div 10000))

\* x[mask]: the elements of x that satisfy the mask, in order
Masked(x_, mask_) ==
    Only({LET keep == {i \in DOMAIN x.vals : mask[i]}
              nth(n) == CHOOSE i \in keep :
                           Cardinality({j \in keep : j <= i}) = n
          IN  Vec("micron", [n \in 1..Cardinality(keep) |-> x.vals[nth(n)]]) :
             x \in {x_}, mask \in {mask_}})

\* the position of element i among the elements that satisfy the mask
Rank(mask, i) == Cardinality({j \in 1..i : mask[j]})

\* faulty variant: the Calzetti mask starts at 0.10 micron
MaskC00_low(x) == [i \in DOMAIN x.vals |-> x.vals[i] > 1000]

\* the masks x > 0.15 and x <= 0.15 of N09.k_lambda
MaskC00(x) == [i \in DOMAIN x.vals |-> x.vals[i] > 1500]

MaskL02(x) == [i \in DOMAIN x.vals |-> x.vals[i] <= 1500]

\* the part of N09.k_lambda and SBL18.k_lambda they share: the range check
\* of the model, then C00().k_lambda on x > 0.15 and L02().k_lambda on
\* x <= 0.15
BaseCurve(xin, x_range, outname) ==
    Only({Only({IF check # "none" THEN Outcome(check, <<range>>, <<>>)
                ELSE IF x.scalar THEN Outcome("TypeError", <<range>>, <<>>)
                ELSE IF c00.raised # "none"
                THEN Outcome(c00.raised, <<range>> \o c00.trace, <<>>)
                ELSE IF l02.raised # "none"
                THEN Outcome(l02.raised, <<range>> \o c00.trace \o l02.trace,
                             <<>>)
                ELSE Outcome("none", <<range>> \o c00.trace \o l02.trace,
                            [i \in DOMAIN x.vals |->
                               IF mask_C00[i]
                               THEN c00.value[Rank(mask_C00, i)]
                               ELSE l02.value[Rank(mask_L02, i)]]) :
                   check \in {test_valid_x_range(x, x_range, outname)},
                   mask_C00 \in {MaskC00(x)},
                   mask_L02 \in {MaskL02(x)},
                   c00 \in {C00_k_lambda(Masked(x, MaskC00(x)))},
                   l02 \in {L02_k_lambda(Masked(x, MaskL02(x)))},
                   range \in {outname \o ".range"}}) :
             x \in {ToMicron(xin)}})

\* N09.k_lambda: the bump is added, then the power law multiplies
N09_k_lambda(xin, x0, gamma, ampl, slope) ==
    Only({IF base.raised # "none" THEN base
          ELSE Outcome("none", base.trace \o <<"uv_bump", "power_law">>,
                      [i \in DOMAIN x.vals |->
                         QMul(QAdd(base.value[i],
                                   uv_bump(Micron(x.vals[i]), Param(x0),
                                           Param(gamma), Param(ampl))),
                              power_law(Micron(x.vals[i]), slope))]) :
             x \in {ToMicron(xin)},
             base \in {BaseCurve(xin, x_range_N09, "N09")}})

\* faulty variant: SBL18 adds the bump before the power law multiplies
SBL18_k_lambda_bumpfirst(xin, x0, gamma, ampl, slope) ==
    Only({IF base.raised # "none" THEN base
          ELSE Outcome("none", base.trace \o <<"power_law", "uv_bump">>,
                      [i \in DOMAIN x.vals |->
                         QMul(QAdd(base.value[i],
                                   uv_bump(Micron(x.vals[i]), Param(x0),
                                           Param(gamma), Param(ampl))),
                              power_law(Micron(x.vals[i]), slope))]) :
             x \in {ToMicron(xin)},
             base \in {BaseCurve(xin, x_range_SBL18, "SBL18")}})

\* SBL18.k_lambda: the power law multiplies, then the bump is added
SBL18_k_lambda(xin, x0, gamma, ampl, slope) ==
    Only({IF base.raised # "none" THEN base
          ELSE Outcome("none", base.trace \o <<"power_law", "uv_bump">>,
                      [i \in DOMAIN x.vals |->
                         QAdd(QMul(base.value[i],
                                   power_law(Micron(x.vals[i]), slope)),
                              uv_bump(Micron(x.vals[i]), Param(x0),
                                      Param(gamma), Param(ampl)))]) :
             x \in {ToMicron(xin)},
             base \in {BaseCurve(xin, x_range_SBL18, "SBL18")}})

\* N09.evaluate, which SBL18 inherits: self.k_lambda is the k_lambda of the
\* instance's class
N09_evaluate(kind, xin, x0, gamma, ampl, slope, Av) ==
    Only({IF axEbv.raised # "none" THEN axEbv
          ELSE Outcome("none", axEbv.trace, ScaleByAv(axEbv.value, Av)) :
             axEbv \in {IF kind = "SBL18"
                        THEN SBL18_k_lambda(xin, x0, gamma, ampl, slope)
                        ELSE N09_k_lambda(xin, x0, gamma, ampl, slope)}})

\* self(x) on a closed-form model: evaluate with the stored parameters
Curve_call(self, xin) ==
    IF self.kind = "C00" THEN C00_evaluate(xin, self.params.Av)
    ELSE IF self.kind = "L02" THEN L02_evaluate(xin, self.params.Av)
    ELSE N09_evaluate(self.kind, xin, self.params.x0, self.params.gamma,
                      self.params.ampl, self.params.slope, self.params.Av)

(***************************************************************************)
(* BaseAttModel.attenuate: the model is called at x with its current       *)
(* parameters and the magnitudes are turned into fractions.  A power of    *)
(* ten is kept as the term base^exponent with its exact exponent.          *)
(***************************************************************************)
\* np.power(base, exponent)
np_power(base, exponent) == [base |-> base, exponent |-> exponent]

\* c * v for the constant c = n/d, in the arithmetic the value v is in
Times(n, d, v_) ==
    Only({IF "num" \in DOMAIN v THEN RatMul(Rat(n, d), v)
          ELSE QMul(Q(n, d), v) : v \in {v_}})

\* faulty variant: the sign of the exponent is lost
BaseAttModel_attenuate_sign(ax_) ==
    Only({IF ax.raised # "none"
          THEN Outcome(ax.raised, ax.trace, <<>>)
          ELSE Outcome("none", ax.trace,
                       [k \in DOMAIN ax.value |->
                          np_power(10, Times(4, 10, ax.value[k]))]) :
             ax \in {ax_}})

\* np.power(10.0, -0.4*ax), ax being the outcome of self(x): an exception
\* of the call leaves attenuate as it is
BaseAttModel_attenuate(ax_) ==
    Only({IF ax.raised # "none"
          THEN Outcome(ax.raised, ax.trace, <<>>)
          ELSE Outcome("none", ax.trace,
                       [k \in DOMAIN ax.value |->
                          np_power(10, Times(-4, 10, ax.value[k]))]) :
             ax \in {ax_}})

\* self(x) on a WG00 instance: evaluate with the stored tau_V
WG00_call(self, xin) == WG00_evaluate(self, xin, self.tau_V)

(***************************************************************************)
(* The validated parameters of N09 (shapes.py), in units of 1e-4           *)
(***************************************************************************)
N09_param_names == <<"x0", "gamma", "ampl", "slope", "Av">>

\* faulty variant: the slope is checked against its upper bound only
N09_validator_upper(name, value) ==
    IF name = "slope"
    THEN IF value > 30000
         THEN "parameter slope must be between -3.0 and 3.0"
         ELSE "none"
    ELSE IF value < 0
         THEN "parameter " \o name \o " must be positive"
         ELSE "none"

\* the validators of x0, gamma, ampl, slope and Av: the message of the
\* InputParameterError raised for the value, or "none"
N09_validator(name, value) ==
    IF name = "slope"
    THEN IF (value < -30000) \/ (value > 30000)
         THEN "parameter slope must be between -3.0 and 3.0"
         ELSE "none"
    ELSE IF value < 0
         THEN "parameter " \o name \o " must be positive"
         ELSE "none"

\* the messages the validators raise for a set of constructor arguments
N09_init_errors(params) ==
    {N09_validator(name, params[name]) :
        name \in {n \in DOMAIN params : N09_validator(n, params[n]) # "none"}}

(***************************************************************************)
(* The state machine of a sequential client.  It holds at most one WG00    *)
(* instance (wg) and one N09 instance (n09); it constructs them, assigns   *)
(* their parameters, queries them and drops them.  `last` is the call just *)
(* made with its outcome, which the client takes (Observe) before its next *)
(* call.  `probe` is a call of the range validator on its own.             *)
(***************************************************************************)
\* rows of a complete file: two dust types, steps wavelengths for each
\* optical depth of the grid
FullRows == 2 * steps * Len(tau_V_grid)

\* the files the model is run against: complete; one optical depth short;
\* cut inside the last block; complete with a drifting lambda column
DataSources ==
    {[len_data |-> FullRows, shift |-> 0],
     [len_data |-> FullRows - 2 * steps, shift |-> 0],
     [len_data |-> FullRows - 10, shift |-> 0],
     [len_data |-> FullRows, shift |-> 1]}

\* tau_V values passed to the constructor and assigned (units of 0.25)
TauVArgs == {0, 1, 5, 200, 201}

GeometryArgs == {"shell", "dusty", "sphere"}

DustTypeArgs == {"mw", "SMC", "lmc"}

DistributionArgs == {"clumpy", "homogeneous", "mixed"}

\* wavelength inputs of the queries
XArgs ==
    {Vec("none", <<999>>), Vec("none", <<1000>>), Vec("none", <<5495>>),
     Vec("none", <<5500>>), Vec("none", <<30001>>), Vec("none", <<30002>>),
     Vec("none", <<5500, 30000>>), Vec("none", <<1000, 30002>>),
     Scalar("none", 5500), Scalar("none", 999),
     Vec("1/micron", <<1000>>), Vec("1/micron", <<1250>>)}

\* tau_V values passed to the queries (units of 0.25)
TauVQueries == {1, 5, 200, 204}

NoX == Vec("none", <<>>)

\* a call: the operation, its wavelength input, its numeric argument (tau_V
\* or the value assigned), its selection arguments, and its outcome
Record(op, x, arg, sel, r) ==
    [op |-> op, x |-> x, arg |-> arg, sel |-> sel, raised |-> r.raised,
     msg |-> r.msg, trace |-> r.trace, value |-> r.value]

Idle == Record("idle", NoX, 0, <<>>, Outcome("none", <<>>, <<>>))

Init ==
    /\ data \in DataSources
    /\ wg = <<>>
    /\ n09 = <<>>
    /\ last = Idle
    /\ probe = <<>>
    /\ curve = <<>>
    /\ thr = <<>>

\* the client takes the value or the exception of its last call
Observe ==
    /\ last # Idle
    /\ last' = Idle
    /\ UNCHANGED <<data, wg, n09, probe, curve, thr>>

\* m = WG00(tau_V, geometry, dust_type, dust_distribution)
Construct ==
    /\ last = Idle
    /\ wg = <<>>
    /\ \E geometry \in GeometryArgs, dust_type \in DustTypeArgs,
          dust_distribution \in DistributionArgs, tau_V \in TauVArgs :
          LET r == WG00_init(data, tau_V, geometry, dust_type,
                             dust_distribution)
          IN  /\ wg' = r.self
              /\ last' = Record("WG00", NoX, tau_V,
                                <<geometry, dust_type, dust_distribution>>,
                                [raised |-> r.raised, msg |-> r.msg,
                                 trace |-> r.trace, value |-> <<>>])
    /\ UNCHANGED <<data, n09, probe, curve, thr>>

\* del m
Drop ==
    /\ last = Idle
    /\ wg # <<>>
    /\ wg' = <<>>
    /\ last' = Record("del", NoX, 0, <<>>, Outcome("none", <<>>, <<>>))
    /\ UNCHANGED <<data, n09, probe, curve, thr>>

\* m.tau_V = value: the validator runs, then the value is stored
SetTauV ==
    /\ last = Idle
    /\ wg # <<>>
    /\ \E value \in TauVArgs :
          LET msg == tau_V_validator(value)
          IN  /\ wg' = IF msg = "none"
                       THEN <<[wg[1] EXCEPT !.tau_V = value]>>
                       ELSE wg
              /\ last' = Record("tau_V", NoX, value, <<>>,
                                Failure(ParameterError(msg), msg,
                                        <<"validate">>))
    /\ UNCHANGED <<data, n09, probe, curve, thr>>

\* faulty variant: the call leaves the tau grid in place of the tau_att grid
Query_caching(op, r, x, tau_V) ==
    /\ wg' = [wg EXCEPT ![1].model = wg[1].tau]
    /\ last' = Record(op, x, tau_V, <<>>, r)
    /\ UNCHANGED <<data, n09, probe, curve, thr>>

\* faulty variant: the tau_V argument of the call is stored in the model
Query_storing(op, r, x, tau_V) ==
    /\ wg' = [wg EXCEPT ![1].tau_V = tau_V]
    /\ last' = Record(op, x, tau_V, <<>>, r)
    /\ UNCHANGED <<data, n09, probe, curve, thr>>

\* a query: no statement of the eight query methods assigns to self
Query(op, r, x, tau_V) ==
    /\ wg' = wg
    /\ last' = Record(op, x, tau_V, <<>>, r)
    /\ UNCHANGED <<data, n09, probe, curve, thr>>

Evaluate ==
    /\ last = Idle
    /\ wg # <<>>
    /\ \E x \in XArgs, tau_V \in TauVQueries :
          Query("evaluate", WG00_evaluate(wg[1], x, tau_V), x, tau_V)

GetExtinction ==
    /\ last = Idle
    /\ wg # <<>>
    /\ \E x \in XArgs, tau_V \in TauVQueries :
          Query("get_extinction", WG00_get_extinction(wg[1], x, tau_V),
                x, tau_V)

GetFsca ==
    /\ last = Idle
    /\ wg # <<>>
    /\ \E x \in XArgs, tau_V \in TauVQueries :
          Query("get_fsca", WG00_get_fsca(wg[1], x, tau_V), x, tau_V)

GetFdir ==
    /\ last = Idle
    /\ wg # <<>>
    /\ \E x \in XArgs, tau_V \in TauVQueries :
          Query("get_fdir", WG00_get_fdir(wg[1], x, tau_V), x, tau_V)

GetFesc ==
    /\ last = Idle
    /\ wg # <<>>
    /\ \E x \in XArgs, tau_V \in TauVQueries :
          Query("get_fesc", WG00_get_fesc(wg[1], x, tau_V), x, tau_V)

GetAlbedo ==
    /\ last = Idle
    /\ wg # <<>>
    /\ \E x \in XArgs :
          Query("get_albedo", WG00_get_albedo(wg[1], x), x, 0)

GetScatteringPhaseFunction ==
    /\ last = Idle
    /\ wg # <<>>
    /\ \E x \in XArgs :
          Query("get_scattering_phase_function",
                WG00_get_scattering_phase_function(wg[1], x), x, 0)

\* m.attenuate(x)
Attenuate ==
    /\ last = Idle
    /\ wg # <<>>
    /\ \E x \in XArgs :
          Query("attenuate", BaseAttModel_attenuate(WG00_call(wg[1], x)),
                x, wg[1].tau_V)

Next ==
    \/ Observe
    \/ Construct
    \/ Drop
    \/ SetTauV
    \/ Attenuate
    \/ Evaluate
    \/ GetExtinction
    \/ GetFsca
    \/ GetFdir
    \/ GetFesc
    \/ GetAlbedo
    \/ GetScatteringPhaseFunction

Spec == Init /\ [][Next]_vars

(***************************************************************************)
(* The client of N09: construction and parameter assignment                *)
(***************************************************************************)
\* values passed for each parameter (units of 1e-4)
ParamArgs(name) ==
    IF name = "slope" THEN {-30001, -30000, 0, 30000, 30001}
    ELSE IF name = "Av" THEN {-1, 0, 10000}
    ELSE {-1, 0}

N09Args == [x0 : ParamArgs("x0"), gamma : ParamArgs("gamma"),
            ampl : ParamArgs("ampl"), slope : ParamArgs("slope"),
            Av : ParamArgs("Av")]

\* n = N09(x0=..., gamma=..., ampl=..., slope=..., Av=...): every validator
\* runs; with several invalid arguments the one reported is not fixed
ConstructN09 ==
    /\ last = Idle
    /\ n09 = <<>>
    /\ \E params \in N09Args :
          IF N09_init_errors(params) = {}
          THEN /\ n09' = <<params>>
               /\ last' = Record("N09", NoX, 0, <<>>,
                                 Outcome("none", <<"validate">>, <<>>))
          ELSE /\ n09' = n09
               /\ \E msg \in N09_init_errors(params) :
                     last' = Record("N09", NoX, 0, <<>>,
                                    Failure("InputParameterError", msg,
                                            <<"validate">>))
    /\ UNCHANGED <<data, wg, probe, curve, thr>>

\* del n
DropN09 ==
    /\ last = Idle
    /\ n09 # <<>>
    /\ n09' = <<>>
    /\ last' = Record("del", NoX, 0, <<>>, Outcome("none", <<>>, <<>>))
    /\ UNCHANGED <<data, wg, probe, curve, thr>>

\* n.<name> = value: the validator runs, then the value is stored
SetN09 ==
    /\ last = Idle
    /\ n09 # <<>>
    /\ \E name \in DOMAIN n09[1] : \E value \in ParamArgs(name) :
          LET msg == N09_validator(name, value)
          IN  /\ n09' = IF msg = "none"
                        THEN <<[n09[1] EXCEPT ![name] = value]>>
                        ELSE n09
              /\ last' = Record(name, NoX, value, <<>>,
                                Failure(ParameterError(msg), msg,
                                        <<"validate">>))
    /\ UNCHANGED <<data, wg, probe, curve, thr>>

\* the client of both models
NextParams ==
    \/ Observe
    \/ Construct
    \/ Drop
    \/ SetTauV
    \/ ConstructN09
    \/ DropN09
    \/ SetN09

InitParams == Init /\ data.len_data = FullRows /\ data.shift = 0

SpecParams == InitParams /\ [][NextParams]_vars

(***************************************************************************)
(* The client of the closed-form curves and of attenuate: it constructs    *)
(* one C00, L02, N09 or SBL18 instance (curve), calls it and asks for its  *)
(* fractional attenuation; it does the same with a WG00 instance.          *)
(***************************************************************************)
CurveKinds == {"C00", "L02", "N09", "SBL18"}

\* values passed for each parameter (units of 1e-4)
CurveParamArgs(name) ==
    IF name = "x0" THEN {-1, 2175}
    ELSE IF name = "gamma" THEN {-1, 0, 350}
    ELSE IF name = "ampl" THEN {-1, 0, 35000}
    ELSE IF name = "slope" THEN {-30001, -30000, 0, 10000, 30000, 30001}
    ELSE {-1, 0, 10000, 20000}

CurveArgs(kind) ==
    IF kind \in {"C00", "L02"} THEN [Av : CurveParamArgs("Av")]
    ELSE [x0 : CurveParamArgs("x0"), gamma : CurveParamArgs("gamma"),
          ampl : CurveParamArgs("ampl"), slope : CurveParamArgs("slope"),
          Av : CurveParamArgs("Av")]

\* the messages the validators of the class raise for the arguments
Curve_init_errors(kind, params) ==
    IF kind \in {"C00", "L02"}
    THEN {Av_validator(params.Av)} \ {"none"}
    ELSE N09_init_errors(params)

\* wavelength inputs of the calls
CurveXArgs ==
    {Vec("none", <<969>>), Vec("none", <<970>>), Vec("none", <<1199>>),
     Vec("none", <<1200>>), Vec("none", <<1500>>), Vec("none", <<1501>>),
     Vec("none", <<1800>>), Vec("none", <<1801>>), Vec("none", <<2175>>),
     Vec("none", <<5500>>), Vec("none", <<6300>>), Vec("none", <<22000>>),
     Vec("none", <<22001>>), Vec("none", <<1000, 5500>>),
     Scalar("none", 1500), Vec("1/micron", <<500>>)}

\* c = C00(Av=...), L02(Av=...), N09(x0=..., ...) or SBL18(x0=..., ...):
\* every validator runs; with several invalid arguments the one reported
\* is not fixed
ConstructCurve ==
    /\ last = Idle
    /\ curve = <<>>
    /\ wg = <<>>
    /\ \E kind \in CurveKinds : \E params \in CurveArgs(kind) :
          IF Curve_init_errors(kind, params) = {}
          THEN /\ curve' = <<[kind |-> kind, params |-> params]>>
               /\ last' = Record("curve", NoX, 0, <<kind, params>>,
                                 Outcome("none", <<"validate">>, <<>>))
          ELSE /\ curve' = curve
               /\ \E msg \in Curve_init_errors(kind, params) :
                     last' = Record("curve", NoX, 0, <<kind, params>>,
                                    Failure("InputParameterError", msg,
                                            <<"validate">>))
    /\ UNCHANGED <<data, wg, n09, probe, thr>>

\* del c
DropCurve ==
    /\ last = Idle
    /\ curve # <<>>
    /\ curve' = <<>>
    /\ last' = Record("del", NoX, 0, <<>>, Outcome("none", <<>>, <<>>))
    /\ UNCHANGED <<data, wg, n09, probe, thr>>

\* c(x)
CallCurve ==
    /\ last = Idle
    /\ curve # <<>>
    /\ \E x \in CurveXArgs :
          last' = Record("curve_call", x, 0, <<>>, Curve_call(curve[1], x))
    /\ UNCHANGED <<data, wg, n09, probe, curve, thr>>

\* c.attenuate(x)
AttenuateCurve ==
    /\ last = Idle
    /\ curve # <<>>
    /\ \E x \in CurveXArgs :
          last' = Record("curve_attenuate", x, 0, <<>>,
                         BaseAttModel_attenuate(Curve_call(curve[1], x)))
    /\ UNCHANGED <<data, wg, n09, probe, curve, thr>>

\* the client holds one model at a time
ConstructAlone == curve = <<>> /\ Construct

NextCurves ==
    \/ Observe
    \/ ConstructCurve
    \/ DropCurve
    \/ CallCurve
    \/ AttenuateCurve
    \/ ConstructAlone
    \/ Drop
    \/ Attenuate

SpecCurves == InitParams /\ [][NextCurves]_vars

(***************************************************************************)
(* The client that reselects: geometry, dust_type and dust_distribution    *)
(* are plain instance attributes, which Python lets the client assign.     *)
(***************************************************************************)
\* m.geometry = value, m.dust_type = value or m.dust_distribution = value:
\* the attribute is rebound, as given, and nothing else happens
SetSelection ==
    /\ last = Idle
    /\ wg # <<>>
    /\ \E field \in {"geometry", "dust_type", "dust_distribution"} :
          \E value \in (CASE field = "geometry" -> GeometryArgs
                          [] field = "dust_type" -> DustTypeArgs
                          [] OTHER -> DistributionArgs) :
             /\ wg' = <<[wg[1] EXCEPT ![field] = value]>>
             /\ last' = Record("setattr", NoX, 0, <<field, value>>,
                               Outcome("none", <<>>, <<>>))
    /\ UNCHANGED <<data, n09, probe, curve, thr>>

NextSelect ==
    \/ Observe
    \/ Construct
    \/ Drop
    \/ SetSelection
    \/ GetAlbedo
    \/ GetScatteringPhaseFunction

SpecSelect == InitParams /\ [][NextSelect]_vars

(***************************************************************************)
(* Threads.  Two threads of one interpreter share the instance wg and the  *)
(* unit registry stack of astropy.units; each thread either evaluates on   *)
(* the shared instance or constructs a model of its own.  A thread runs    *)
(* one statement at a time, and the interpreter may switch threads between *)
(* any two statements.  thr.reg is the registry stack, each registry       *)
(* reduced to whether the spectral equivalency is enabled in it; thr.th is *)
(* the position and the locals of each thread.                             *)
(***************************************************************************)
Threads == {1, 2}

ThreadXArgs ==
    {Vec("none", <<5500>>), Vec("none", <<30002>>), Vec("1/micron", <<1000>>)}

ThreadTauV == {5, 200}

ThreadSelections ==
    {<<"shell", "mw", "clumpy">>, <<"dusty", "SMC", "homogeneous">>}

IdleThread ==
    [pc |-> "idle", job |-> "none", x |-> NoX, arg |-> 0, sel |-> <<>>,
     self |-> <<>>, idx |-> 0, out |-> Outcome("none", <<>>, <<>>)]

\* the attributes __init__ assigns after the selection, in its order
GridFields == <<"wvl_grid", "model", "tau", "fsca", "fdir", "fesc">>

InitThreads ==
    /\ data = [len_data |-> FullRows, shift |-> 0]
    /\ wg = WG00_init(data, 5, "shell", "mw", "clumpy").self
    /\ n09 = <<>>
    /\ last = Idle
    /\ probe = <<>>
    /\ curve = <<>>
    /\ thr = [reg |-> <<FALSE>>, th |-> [t \in Threads |-> IdleThread]]

\* the thread t moves to the record `rec`, the registry stack becoming reg
Step(t, rec, reg) ==
    /\ thr' = [reg |-> reg, th |-> [thr.th EXCEPT ![t] = rec]]
    /\ UNCHANGED <<data, wg, n09, last, probe, curve>>

\* a thread calls m.evaluate(x, tau_V) on the shared instance
StartEvaluate(t) ==
    /\ thr.th[t].pc = "idle"
    /\ \E x \in ThreadXArgs, tau_V \in ThreadTauV :
          Step(t, [IdleThread EXCEPT !.pc = "ctx_new", !.job = "evaluate",
                                     !.x = x, !.arg = tau_V], thr.reg)

\* add_enabled_equivalencies, first statement: a copy of the current
\* registry is pushed on the stack
CtxNew(t) ==
    /\ thr.th[t].pc = "ctx_new"
    /\ Step(t, [thr.th[t] EXCEPT !.pc = "ctx_add"],
            Append(thr.reg, thr.reg[Len(thr.reg)]))

\* add_enabled_equivalencies, second statement: the spectral equivalency
\* is enabled in the registry that is current now
CtxAdd(t) ==
    /\ thr.th[t].pc = "ctx_add"
    /\ Step(t, [thr.th[t] EXCEPT !.pc = "convert"],
            [thr.reg EXCEPT ![Len(thr.reg)] = TRUE])

\* x_quant = u.Quantity(x, u.micron): an input in 1/micron converts only
\* with the spectral equivalency enabled in the current registry
Convert(t) ==
    /\ thr.th[t].pc = "convert"
    /\ LET ok == thr.th[t].x.unit = "none" \/ thr.reg[Len(thr.reg)]
       IN  Step(t, [thr.th[t] EXCEPT
                       !.pc = "ctx_exit",
                       !.out = IF ok THEN @
                               ELSE Outcome("UnitConversionError",
                                            <<>>, <<>>)],
                thr.reg)

\* the with block is left, by its end or by the exception: the current
\* registry is popped
CtxExit(t) ==
    /\ thr.th[t].pc = "ctx_exit"
    /\ Step(t, [thr.th[t] EXCEPT
                   !.pc = IF thr.th[t].out.raised = "none" THEN "interpolate"
                          ELSE "done"],
            SubSeq(thr.reg, 1, Len(thr.reg) - 1))

\* the rest of evaluate: the range check and the interpolation on the grid
\* of the shared instance, on the locals of the thread
Interpolate(t) ==
    /\ thr.th[t].pc = "interpolate"
    /\ Step(t, [thr.th[t] EXCEPT
                   !.pc = "done",
                   !.out = WG00_evaluate(wg[1], thr.th[t].x, thr.th[t].arg)],
            thr.reg)

\* a thread calls WG00(tau_V, geometry, dust_type, dust_distribution)
StartConstruct(t) ==
    /\ thr.th[t].pc = "idle"
    /\ \E sel \in ThreadSelections, tau_V \in {1} :
          Step(t, [IdleThread EXCEPT !.pc = "attrs", !.job = "construct",
                                     !.arg = tau_V, !.sel = sel], thr.reg)

\* self.geometry, self.dust_type, self.dust_distribution are assigned
AssignSelection(t) ==
    /\ thr.th[t].pc = "attrs"
    /\ Step(t, [thr.th[t] EXCEPT
                   !.pc = "grids", !.idx = 1,
                   !.self = [geometry |-> Lower(thr.th[t].sel[1]),
                             dust_type |-> Lower(thr.th[t].sel[2]),
                             dust_distribution |-> Lower(thr.th[t].sel[3])]],
            thr.reg)

\* the file of self.geometry is read and sliced into the locals of the
\* call, and the next of self.wvl_grid, self.model, self.tau, self.fsca,
\* self.fdir, self.fesc is assigned
AssignGrid(t) ==
    /\ thr.th[t].pc = "grids"
    /\ LET me == thr.th[t]
           built == WG00_init(data, me.arg, me.self.geometry,
                              me.self.dust_type,
                              me.self.dust_distribution).self[1]
           f == GridFields[me.idx]
           self == [a \in DOMAIN me.self \cup {f} |->
                      IF a = f THEN built[f] ELSE me.self[a]]
       IN  Step(t, [me EXCEPT
                       !.self = self,
                       !.idx = @ + 1,
                       !.pc = IF me.idx = Len(GridFields) THEN "validate"
                              ELSE "grids"],
                thr.reg)

\* super().__init__(tau_V=tau_V): the parameter is validated and stored
InitTauV(t) ==
    /\ thr.th[t].pc = "validate"
    /\ LET me == thr.th[t]
           msg == tau_V_validator(me.arg)
           self == [a \in DOMAIN me.self \cup {"tau_V"} |->
                      IF a = "tau_V" THEN me.arg ELSE me.self[a]]
       IN  Step(t, [me EXCEPT
                       !.pc = "done",
                       !.self = IF msg = "none" THEN self ELSE @,
                       !.out = Failure(ParameterError(msg), msg, <<>>)],
                thr.reg)

\* the call returns; the thread takes its result and is free again
Return(t) ==
    /\ thr.th[t].pc = "done"
    /\ Step(t, IdleThread, thr.reg)

NextThreads ==
    \E t \in Threads :
       \/ StartEvaluate(t)
       \/ CtxNew(t)
       \/ CtxAdd(t)
       \/ Convert(t)
       \/ CtxExit(t)
       \/ Interpolate(t)
       \/ StartConstruct(t)
       \/ AssignSelection(t)
       \/ AssignGrid(t)
       \/ InitTauV(t)
       \/ Return(t)

SpecThreads == InitThreads /\ [][NextThreads]_vars

(***************************************************************************)
(* Twins.  The client constructs two WG00 instances with the same          *)
(* arguments from the same files and queries either of them, in any order. *)
(***************************************************************************)
AllQueryOps ==
    {"evaluate", "get_extinction", "get_fsca", "get_fdir", "get_fesc",
     "get_albedo", "get_scattering_phase_function", "attenuate"}

\* the query `op` on the instance self
WG00_query(op, self, x, tau_V) ==
    CASE op = "evaluate" -> WG00_evaluate(self, x, tau_V)
      [] op = "get_extinction" -> WG00_get_extinction(self, x, tau_V)
      [] op = "get_fsca" -> WG00_get_fsca(self, x, tau_V)
      [] op = "get_fdir" -> WG00_get_fdir(self, x, tau_V)
      [] op = "get_fesc" -> WG00_get_fesc(self, x, tau_V)
      [] op = "get_albedo" -> WG00_get_albedo(self, x)
      [] op = "get_scattering_phase_function"
            -> WG00_get_scattering_phase_function(self, x)
      [] OTHER -> BaseAttModel_attenuate(WG00_call(self, x))

\* m1 = WG00(args); m2 = WG00(args)
ConstructTwins ==
    /\ last = Idle
    /\ wg = <<>>
    /\ \E geometry \in GeometryArgs, dust_type \in DustTypeArgs,
          dust_distribution \in DistributionArgs, tau_V \in TauVArgs :
          LET r == WG00_init(data, tau_V, geometry, dust_type,
                             dust_distribution)
          IN  /\ wg' = r.self \o r.self
              /\ last' = Record("WG00", NoX, tau_V,
                                <<geometry, dust_type, dust_distribution>>,
                                [raised |-> r.raised, msg |-> r.msg,
                                 trace |-> r.trace, value |-> <<>>])
    /\ UNCHANGED <<data, n09, probe, curve, thr>>

\* a query on the second instance
QueryTwin ==
    /\ last = Idle
    /\ Len(wg) = 2
    /\ \E op \in AllQueryOps, x \in XArgs, tau_V \in TauVQueries :
          LET arg == IF op = "attenuate" THEN wg[2].tau_V
                     ELSE IF op \in {"get_albedo",
                                     "get_scattering_phase_function"}
                     THEN 0
                     ELSE tau_V
          IN  last' = Record(op, x, arg, <<"twin">>,
                             WG00_query(op, wg[2], x, arg))
    /\ UNCHANGED <<data, wg, n09, probe, curve, thr>>

NextTwins ==
    \/ Observe
    \/ ConstructTwins
    \/ Drop
    \/ Evaluate
    \/ GetExtinction
    \/ GetFsca
    \/ GetFdir
    \/ GetFesc
    \/ GetAlbedo
    \/ GetScatteringPhaseFunction
    \/ Attenuate
    \/ QueryTwin

SpecTwins == InitParams /\ [][NextTwins]_vars

(***************************************************************************)
(* Units.  evaluate of each of the five models, WG00 on an instance built  *)
(* from the complete file and the closed-form curves with the default bump *)
(* and slope, on inputs untagged, in micron, in Angstrom and in 1/micron.  *)
(***************************************************************************)
ModelKinds == CurveKinds \cup {"WG00"}

\* wavelengths around the bounds of the five domains (1e-4 micron)
UnitWavelengths ==
    {969, 970, 1000, 1199, 1200, 1800, 1801, 5500, 22000, 22001, 30001,
     30002}

\* wavenumbers (1e-2 per micron)
UnitWavenumbers == {1250, 1000, 500, 200, 50, 40, 33}

UnitXArgs ==
    {Vec("none", <<v>>) : v \in UnitWavelengths}
    \cup {Vec("micron", <<v>>) : v \in UnitWavelengths}
    \cup {Vec("angstrom", <<10 * v>>) : v \in UnitWavelengths}
    \cup {Vec("1/micron", <<w>>) : w \in UnitWavenumbers}
    \cup {Scalar("micron", 5500), Scalar("angstrom", 9690),
          Vec("angstrom", <<12000, 55000>>), Vec("1/micron", <<200, 1250>>)}

\* model.evaluate(x, p): p is tau_V for WG00 and Av for the curves
Model_evaluate(kind, xin, p) ==
    IF kind = "WG00" THEN WG00_evaluate(wg[1], xin, p)
    ELSE IF kind = "C00" THEN C00_evaluate(xin, p)
    ELSE IF kind = "L02" THEN L02_evaluate(xin, p)
    ELSE N09_evaluate(kind, xin, 2175, 350, 0, 0, p)

InitUnits ==
    /\ data = [len_data |-> FullRows, shift |-> 0]
    /\ wg = WG00_init(data, 5, "shell", "mw", "clumpy").self
    /\ n09 = <<>>
    /\ last = Idle
    /\ probe = <<>>
    /\ curve = <<>>
    /\ thr = <<>>

EvaluateUnits ==
    /\ last = Idle
    /\ \E kind \in ModelKinds, x \in UnitXArgs :
          LET p == IF kind = "WG00" THEN 5 ELSE 10000
          IN  last' = Record("unit_evaluate", x, p, <<kind>>,
                             Model_evaluate(kind, x, p))
    /\ UNCHANGED <<data, wg, n09, probe, curve, thr>>

NextUnits == Observe \/ EvaluateUnits

SpecUnits == InitUnits /\ [][NextUnits]_vars

(***************************************************************************)
(* The range validator on its own: any input against any range             *)
(***************************************************************************)
MaxVecLen == 2

ProbeVals == 0..4

ProbeRanges == {<<1, 3>>, <<2, 2>>, <<0, 4>>}

ProbeInputs ==
    {Scalar("micron", v) : v \in ProbeVals}
    \cup {Vec("micron", vals) :
            vals \in UNION {[1..n -> ProbeVals] : n \in 1..MaxVecLen}}

InitRange ==
    /\ data = [len_data |-> FullRows, shift |-> 0]
    /\ wg = <<>>
    /\ n09 = <<>>
    /\ last = Idle
    /\ curve = <<>>
    /\ thr = <<>>
    /\ \E x \in ProbeInputs, x_range \in ProbeRanges :
          probe = <<[x |-> x, x_range |-> x_range, raised |-> "pending"]>>

\* _test_valid_x_range(x, x_range, outname)
TestRange ==
    /\ probe[1].raised = "pending"
    /\ probe' = <<[probe[1] EXCEPT !.raised =
                     test_valid_x_range(probe[1].x, probe[1].x_range, "probe")]>>
    /\ UNCHANGED <<data, wg, n09, last, curve, thr>>

NextRange == TestRange

SpecRange == InitRange /\ [][NextRange]_vars

(***************************************************************************)
(* The k-lambda clipper on its own: any float array, then its own output   *)
(***************************************************************************)
\* klam >= 0 on one float: False on nan
GeqZero(a) == ~IsNaN(a) /\ ~a.neg

\* np.maximum(klam, 0.0) on one float: nan stays nan
np_maximum_zero(a) == IF IsNaN(a) THEN QNaN ELSE IF a.neg THEN Q(0, 1) ELSE a

\* _positive_klambda(klam): the returned array and whether the
\* AstropyUserWarning was emitted
positive_klambda(klam) ==
    IF ~(\A i \in DOMAIN klam : GeqZero(klam[i]))
    THEN [out |-> [i \in DOMAIN klam |-> np_maximum_zero(klam[i])],
          warned |-> TRUE]
    ELSE [out |-> klam, warned |-> FALSE]

KlamVals == {Q(n, 2) : n \in -2..2} \cup {QNaN}

KlamInputs == UNION {[1..n -> KlamVals] : n \in 0..MaxVecLen}

InitKlam ==
    /\ data = [len_data |-> FullRows, shift |-> 0]
    /\ wg = <<>>
    /\ n09 = <<>>
    /\ last = Idle
    /\ curve = <<>>
    /\ thr = <<>>
    /\ \E klam \in KlamInputs :
          probe = <<[klam |-> klam, calls |-> 0,
                     first |-> [out |-> <<>>, warned |-> FALSE],
                     second |-> [out |-> <<>>, warned |-> FALSE]]>>

\* kout = _positive_klambda(klam)
ClipKlam ==
    /\ probe[1].calls = 0
    /\ probe' = <<[probe[1] EXCEPT !.calls = 1,
                                   !.first = positive_klambda(probe[1].klam)]>>
    /\ UNCHANGED <<data, wg, n09, last, curve, thr>>

\* _positive_klambda(kout)
ClipAgain ==
    /\ probe[1].calls = 1
    /\ probe' = <<[probe[1] EXCEPT
                     !.calls = 2,
                     !.second = positive_klambda(probe[1].first.out)]>>
    /\ UNCHANGED <<data, wg, n09, last, curve, thr>>

NextKlam == ClipKlam \/ ClipAgain

SpecKlam == InitKlam /\ [][NextKlam]_vars

(***************************************************************************)
(* The row-cursor loop of WG00.__init__ pass by pass, for a table of any   *)
(* length: one run for each dust type over the same table                  *)
(***************************************************************************)
MaxSlices == 3

TableLengths == 0..(2 * steps * MaxSlices + steps)

LoopDustTypes == <<"mw", "smc">>

\* the row numbers of a table of len_data rows, as a column
RowColumn(len_data) == [i \in 1..len_data |-> i - 1]

\* faulty variant: the cursor advances by one block
Advance_block(counter) == counter + steps

\* counter += int(2 * steps)
Advance(counter) == counter + 2 * steps

InitLoop ==
    /\ data = [len_data |-> FullRows, shift |-> 0]
    /\ wg = <<>>
    /\ n09 = <<>>
    /\ last = Idle
    /\ curve = <<>>
    /\ thr = <<>>
    /\ \E len_data \in TableLengths :
          probe = [i \in DOMAIN LoopDustTypes |->
                     [dust_type |-> LoopDustTypes[i],
                      len_data |-> len_data,
                      pc |-> "start", counter |-> 0, list |-> <<>>]]

\* counter = start
LoopStart(i) ==
    /\ probe[i].pc = "start"
    /\ probe' = [probe EXCEPT
                    ![i].pc = "while",
                    ![i].counter =
                        IF probe[i].dust_type = "mw" THEN 0 ELSE steps]
    /\ UNCHANGED <<data, wg, n09, last, curve, thr>>

\* one pass of the body: the slice [counter : counter + steps] is appended
\* and the cursor advances
LoopPass(i) ==
    /\ probe[i].pc = "while"
    /\ probe[i].counter < probe[i].len_data
    /\ probe' = [probe EXCEPT
                    ![i].list =
                        Append(probe[i].list,
                               Slice(RowColumn(probe[i].len_data),
                                     probe[i].counter,
                                     probe[i].counter + steps)),
                    ![i].counter = Advance(probe[i].counter)]
    /\ UNCHANGED <<data, wg, n09, last, curve, thr>>

\* the loop condition fails
LoopExit(i) ==
    /\ probe[i].pc = "while"
    /\ ~(probe[i].counter < probe[i].len_data)
    /\ probe' = [probe EXCEPT ![i].pc = "done"]
    /\ UNCHANGED <<data, wg, n09, last, curve, thr>>

NextLoop ==
    \E i \in DOMAIN LoopDustTypes : LoopStart(i) \/ LoopPass(i) \/ LoopExit(i)

\* each run is a sequential program: it takes its next step
SpecLoop ==
    /\ InitLoop
    /\ [][NextLoop]_vars
    /\ \A i \in DOMAIN LoopDustTypes :
          WF_vars(LoopStart(i) \/ LoopPass(i) \/ LoopExit(i))

(***************************************************************************)
(* Properties                                                              *)
(***************************************************************************)
InRange(v, range) == range[1] <= v /\ v <= range[2]

Contains(seq, e) == \E i \in DOMAIN seq : seq[i] = e

\* the constructor has just returned or raised
Constructed == last.op = "WG00"

ValidSelection(sel) ==
    /\ Lower(sel[1]) \in {"shell", "cloudy", "dusty"}
    /\ Lower(sel[2]) \in {"mw", "smc"}
    /\ Lower(sel[3]) \in {"clumpy", "homogeneous"}

CompleteFile == data.len_data = FullRows /\ data.shift = 0

\* C1: a construction with tau_V outside [0.25, 50.0] raises the
\* invalid-parameter error before any grid is built: on that path the data
\* source is not read and no interpolator is created.
C1_ValidationBeforeLoad ==
    (/\ Constructed
     /\ CompleteFile
     /\ ValidSelection(last.sel)
     /\ ~InRange(last.arg, tau_V_range))
        => /\ last.raised = "InputParameterError"
           /\ ~Contains(last.trace, "read")
           /\ ~Contains(last.trace, "tabular")

(***************************************************************************)
(* Reference definitions for the interpolation properties                  *)
(***************************************************************************)
\* the line through (p0, v0) and (p1, v1), at q
Line(p0, p1, v0, v1, q) ==
    RatAdd(v0, RatMul(Rat(q - p0, p1 - p0), RatSub(v1, v0)))

Inside(axis, q) == axis[1] <= q /\ q <= axis[Len(axis)]

\* the axis node nearest to a point beyond the axis, and that node's
\* neighbour
EdgeNode(axis, q) == IF q < axis[1] THEN 1 ELSE Len(axis)

NextNode(axis, q) == IF q < axis[1] THEN 2 ELSE Len(axis) - 1

Held(axis, q) == Clip(q, axis[1], axis[Len(axis)])

\* a 2-D table continued along the lines of its edge intervals: along the
\* optical-depth axis at a wavelength node, then along the wavelength axis
AlongTau(tab, i, y) ==
    LET ys == tab.points[2]
        row == tab.lookup_table[i]
    IN  IF Inside(ys, y) THEN Interp2(tab, tab.points[1][i], y)
        ELSE Line(ys[EdgeNode(ys, y)], ys[NextNode(ys, y)],
                  Rat(row[EdgeNode(ys, y)], 1), Rat(row[NextNode(ys, y)], 1),
                  y)

Continued2(tab, x, y) ==
    LET xs == tab.points[1]
    IN  IF Inside(xs, x)
        THEN IF Inside(tab.points[2], y) THEN Interp2(tab, x, y)
             ELSE Line(xs[FindIndex(xs, x)], xs[FindIndex(xs, x) + 1],
                       AlongTau(tab, FindIndex(xs, x), y),
                       AlongTau(tab, FindIndex(xs, x) + 1, y), x)
        ELSE Line(xs[EdgeNode(xs, x)], xs[NextNode(xs, x)],
                  AlongTau(tab, EdgeNode(xs, x), y),
                  AlongTau(tab, NextNode(xs, x), y), x)

Continued1(tab, x) ==
    LET xs == tab.points[1]
        v == tab.lookup_table
    IN  IF Inside(xs, x) THEN Interp1(tab, x)
        ELSE Line(xs[EdgeNode(xs, x)], xs[NextNode(xs, x)],
                  Rat(v[EdgeNode(xs, x)], 1), Rat(v[NextNode(xs, x)], 1), x)

\* the operations that read a 2-D grid, and their grids
GridOps == {"evaluate", "get_extinction", "get_fsca", "get_fdir", "get_fesc"}

GridOf(op) ==
    CASE op = "get_fsca" -> wg[1].fsca
      [] op = "get_fdir" -> wg[1].fdir
      [] op = "get_fesc" -> wg[1].fesc
      [] op = "get_extinction" -> wg[1].tau
      [] OTHER -> wg[1].model

\* the optical-depth-to-magnitude conversion of evaluate and get_extinction
Converted(op, v) ==
    IF op \in {"evaluate", "get_extinction"}
    THEN RatMul(Rat(1086, 1000), v)
    ELSE v

TableOps == {"get_albedo", "get_scattering_phase_function"}

TableOf(op) ==
    Tabular(<<wg[1].wvl_grid>>,
            IF op = "get_albedo"
            THEN (IF wg[1].dust_type = "smc" THEN alb_SMC ELSE alb_MW)
            ELSE (IF wg[1].dust_type = "smc" THEN g_SMC ELSE g_MW))

\* the query points of the last call [Angstrom]
QueryPoints == xinterp_of(ToMicron(last.x))

InDomain(x) ==
    \A k \in DOMAIN ToMicron(x).vals :
        InRange(ToMicron(x).vals[k], x_range_WG00)

OutOfGrid(k) ==
    \/ ~Inside(wg[1].wvl_grid, QueryPoints[k])
    \/ (last.op \in GridOps /\ ~Inside(tau_V_grid, last.arg))

\* a query of a grid or of a table on an instance built from a complete
\* file, with a valid input
GridQuery ==
    /\ last.op \in GridOps \cup TableOps
    /\ ~(last.op = "evaluate" /\ last.x.scalar)
    /\ wg # <<>>
    /\ CompleteFile
    /\ InDomain(last.x)

RowOf(dust_type, i, j) ==
    (IF dust_type = "mw" THEN 0 ELSE steps) + 2 * steps * (j - 1) + (i - 1)

\* the tabulated attenuation optical depth of the instance at grid node (i, j)
RawTauAtt(i, j) ==
    Cell(data, wg[1].geometry, Colname("tau_att", wg[1].dust_distribution),
         RowOf(wg[1].dust_type, i, j))

Evaluated ==
    /\ last.op = "evaluate"
    /\ last.raised = "none"
    /\ wg # <<>>
    /\ CompleteFile

C4_GridLayout ==
    (Constructed /\ last.raised = "none" /\ CompleteFile)
        => \A q \in {"model", "tau", "fsca", "fdir", "fesc"} :
              LET grid == wg[1][q].lookup_table
                  col == CASE q = "model" -> "tau_att"
                           [] q = "tau" -> "tau"
                           [] q = "fsca" -> "f(sca)"
                           [] q = "fdir" -> "f(dir)"
                           [] q = "fesc" -> "f(esc)"
                  name == IF q = "tau" THEN "tau"
                          ELSE Colname(col, wg[1].dust_distribution)
              IN  /\ Len(grid) = 25
                  /\ \A w \in 1..25 :
                        /\ Len(grid[w]) = 26
                        /\ \A t \in 1..26 :
                              grid[w][t] =
                                 Cell(data, wg[1].geometry, name,
                                      RowOf(wg[1].dust_type, w, t))

\* an SMC model was built from a complete file
C4_Witness ==
    /\ Constructed
    /\ last.raised = "none"
    /\ CompleteFile
    /\ wg[1].dust_type = "smc"
    /\ Len(wg[1].fesc.lookup_table) = 25

\* C5: construction checks its own output: a table whose row count does not
\* yield grids of shape (25, 26), or whose wavelength axis differs between
\* optical-depth slices, makes the construction fail.
C5_ConstructionChecksGrid ==
    (Constructed /\ last.raised = "none")
        => /\ \A q \in {"model", "tau", "fsca", "fdir", "fesc"} :
                 /\ Len(wg[1][q].lookup_table) = 25
                 /\ \A w \in 1..25 : Len(wg[1][q].lookup_table[w]) = 26
           /\ \A t \in 1..26, w \in 1..25 :
                 Cell(data, wg[1].geometry, "lambda",
                      RowOf(wg[1].dust_type, w, t)) = wg[1].wvl_grid[w]

\* the errors that report a missing file or column of the selection
ConfigurationErrors == {"ConfigurationError", "FileNotFoundError", "KeyError"}

\* C6: a construction with a dust type, geometry or distribution that has
\* no data fails with a configuration error naming the missing combination
\* and yields no model.
C6_ConfigurationError ==
    (Constructed /\ ~ValidSelection(last.sel))
        => /\ last.raised \in ConfigurationErrors
           /\ wg = <<>>

\* C7: the range validator raises iff some element of x is < low or > high;
\* elements equal to a bound are accepted, and a scalar is treated as the
\* one-element vector of its value.
C7_RangeValidator ==
    (probe # <<>> /\ probe[1].raised # "pending")
        => LET x == probe[1].x
               low == probe[1].x_range[1]
               high == probe[1].x_range[2]
           IN  /\ probe[1].raised \in {"ValueError", "none"}
               /\ probe[1].raised = "none"
                     <=> \A i \in DOMAIN x.vals :
                            low <= x.vals[i] /\ x.vals[i] <= high
               /\ x.scalar =>
                     (probe[1].raised = "ValueError"
                         <=> (x.vals[1] < low \/ x.vals[1] > high))
               /\ <<data, wg, n09, last, curve, thr>> =
                     <<[len_data |-> FullRows, shift |-> 0], <<>>, <<>>, Idle,
                       <<>>, <<>>>>

\* a two-element vector with one element on a bound and one outside was
\* rejected
C7_Witness ==
    /\ probe # <<>>
    /\ probe[1].raised = "ValueError"
    /\ ~probe[1].x.scalar
    /\ Len(probe[1].x.vals) = 2
    /\ probe[1].x.vals[1] = probe[1].x_range[1]
    /\ probe[1].x.vals[2] > probe[1].x_range[2]

QueryOps == GridOps \cup TableOps

\* C8: each of the seven query operations checks x against [0.1, 3.0001]
\* micron before any interpolator: it raises the domain error at the range
\* check iff some element of x is outside the domain, whatever the
\* operation, and then returns no value.
C8_SameDomainCheck ==
    (last.op \in QueryOps)
        => /\ Len(last.trace) >= 1
           /\ last.trace[1] = "range"
           /\ (last.raised = "ValueError" /\ last.trace = <<"range">>)
                 <=> ~InDomain(last.x)
           /\ ~InDomain(last.x) => last.value = <<>>

\* a vector with one element inside and one outside the domain was rejected
\* by get_scattering_phase_function
C8_Witness ==
    /\ last.op = "get_scattering_phase_function"
    /\ last.raised = "ValueError"
    /\ Len(last.x.vals) = 2
    /\ InRange(last.x.vals[1], x_range_WG00)
    /\ last.x.vals[2] > x_range_WG00[2]

\* the declared range of each validated parameter holds in the stored value
StoredInRange ==
    /\ wg # <<>> => InRange(wg[1].tau_V, tau_V_range)
    /\ n09 # <<>> =>
          /\ \A name \in {"x0", "gamma", "ampl", "Av"} : n09[1][name] >= 0
          /\ InRange(n09[1].slope, <<-30000, 30000>>)

\* the declared range of the parameter `name`
Declared(name, value) ==
    IF name = "tau_V" THEN InRange(value, tau_V_range)
    ELSE IF name = "slope" THEN InRange(value, <<-30000, 30000>>)
    ELSE value >= 0

\* an assignment: out of range it raises and leaves both models as they
\* were; in range it stores the value as given
AssignmentStep ==
    (last = Idle /\ last'.op \in {"tau_V", "x0", "gamma", "ampl", "slope", "Av"})
        => IF Declared(last'.op, last'.arg)
           THEN /\ last'.raised = "none"
                /\ IF last'.op = "tau_V"
                   THEN wg'[1].tau_V = last'.arg /\ n09' = n09
                   ELSE n09'[1][last'.op] = last'.arg /\ wg' = wg
           ELSE /\ last'.raised = "InputParameterError"
                /\ wg' = wg
                /\ n09' = n09

\* C9: in every reachable state each validated parameter lies within its
\* declared range, and validation runs on every assignment: an out-of-range
\* assignment raises the invalid-parameter error, is not clamped, and leaves
\* the stored value unchanged.
C9_ParameterInvariant == [](StoredInRange) /\ [][AssignmentStep]_vars

\* an out-of-range slope was assigned to an N09 instance and refused, the
\* stored slope still being the one given at construction
C9_Witness ==
    /\ last.op = "slope"
    /\ last.arg = -30001
    /\ last.raised = "InputParameterError"
    /\ n09 # <<>>
    /\ n09[1].slope = 30000

\* C10: a construction with tau_V < 0.25 or tau_V > 50.0 fails and yields no
\* instance; with a selection that has data the error is the
\* invalid-parameter error, and tau_V = 0.25 and tau_V = 50.0 are accepted.
C10_ConstructionBounds ==
    Constructed
        => /\ ~InRange(last.arg, tau_V_range)
                 => last.raised # "none" /\ wg = <<>>
           /\ (ValidSelection(last.sel) /\ CompleteFile)
                 => IF InRange(last.arg, tau_V_range)
                    THEN /\ last.raised = "none"
                         /\ wg # <<>>
                         /\ wg[1].tau_V = last.arg
                    ELSE last.raised = "InputParameterError"

\* tau_V = 50.0 was accepted by the constructor
C10_Witness ==
    /\ Constructed
    /\ last.arg = tau_V_range[2]
    /\ last.raised = "none"
    /\ wg # <<>>
    /\ wg[1].tau_V = tau_V_range[2]

\* the exponent e is c times the magnitude m (nan for a nan magnitude)
IsTimes(e, n, d, m) ==
    IF "num" \in DOMAIN m THEN e = RatMul(Rat(n, d), m)
    ELSE IF IsNaN(m) THEN IsNaN(e)
    ELSE QEq(e, QMul(Q(n, d), m))

\* the outcome r of attenuate is 10^(-0.4 * m) for the outcome m of the
\* call, element by element, and raises what the call raises
IsAttenuationOf(r, m) ==
    /\ r.raised = m.raised
    /\ IF m.raised # "none" THEN r.value = <<>>
       ELSE /\ DOMAIN r.value = DOMAIN m.value
            /\ \A k \in DOMAIN m.value :
                  /\ r.value[k].base = 10
                  /\ IsTimes(r.value[k].exponent, -2, 5, m.value[k])

\* C11: for every model variant and every x, attenuate(x) is
\* 10^(-0.4 * m(x)) with m(x) the value of the model at x under its current
\* parameters, and attenuate raises the domain error exactly when the
\* evaluation of the model at x does.
C11_AttenuateIsPowerOfCall ==
    /\ last.op = "curve_attenuate"
          => IsAttenuationOf(last, Curve_call(curve[1], last.x))
    /\ last.op = "attenuate"
          => IsAttenuationOf(last, WG00_evaluate(wg[1], last.x, wg[1].tau_V))

\* attenuate returned two fractions on an N09 instance with a bump, a
\* negative slope and Av > 0
C11_Witness ==
    /\ last.op = "curve_attenuate"
    /\ curve[1].kind = "N09"
    /\ curve[1].params.ampl > 0
    /\ curve[1].params.slope < 0
    /\ curve[1].params.Av > 0
    /\ last.raised = "none"
    /\ Len(last.value) = 2
    /\ ~IsNaN(last.value[2].exponent)
    /\ last.value[2].exponent.neg

\* the five grids of `self` hold the rows that the selection (geometry,
\* dust_type, dust_distribution) picks from the data source
BuiltFrom(self, geometry, dust_type, dust_distribution) ==
    \A q \in {"model", "tau", "fsca", "fdir", "fesc"} :
       LET grid == self[q].lookup_table
           col == CASE q = "model" -> "tau_att"
                    [] q = "tau" -> "tau"
                    [] q = "fsca" -> "f(sca)"
                    [] q = "fdir" -> "f(dir)"
                    [] q = "fesc" -> "f(esc)"
           name == IF q = "tau" THEN "tau"
                   ELSE Colname(col, dust_distribution)
       IN  \A w \in DOMAIN grid : \A t \in DOMAIN grid[w] :
              grid[w][t] = Cell(data, geometry, name, RowOf(dust_type, w, t))

\* C12: in every reachable state the five grids of a WG00 instance are those
\* of its current selection: the selection fields cannot be changed on an
\* existing instance, so the dust_type that get_albedo and
\* get_scattering_phase_function read is the one the grids were built from.
C12_GridsOfSelection ==
    wg # <<>>
        => BuiltFrom(wg[1], wg[1].geometry, wg[1].dust_type,
                     wg[1].dust_distribution)

\* the cells (a, b) of a grid that contain the point (x, y)
CellsAt(tab, x, y) ==
    {c \in (1..(Len(tab.points[1]) - 1)) \X (1..(Len(tab.points[2]) - 1)) :
        /\ tab.points[1][c[1]] <= x /\ x <= tab.points[1][c[1] + 1]
        /\ tab.points[2][c[2]] <= y /\ y <= tab.points[2][c[2] + 1]}

\* the four corner values of a cell
Corners(tab, c) ==
    {tab.lookup_table[a][b] : a \in {c[1], c[1] + 1}, b \in {c[2], c[2] + 1}}

\* a query of a 2-D grid within the span of both axes
InGridQuery ==
    /\ GridQuery
    /\ last.op \in GridOps
    /\ Inside(tau_V_grid, last.arg)

C14_EvaluateNonNegative ==
    (/\ Evaluated
     /\ InRange(last.arg, tau_V_range)
     /\ InDomain(last.x)
     /\ \A w \in DOMAIN wg[1].model.lookup_table :
           \A t \in DOMAIN wg[1].model.lookup_table[w] :
              wg[1].model.lookup_table[w][t] >= 0)
        => \A k \in DOMAIN last.value : last.value[k].num >= 0

\* the grid `q` of the instance holds the column `name` of its selection
GridHoldsColumn(q, name) ==
    \A w \in DOMAIN wg[1][q].lookup_table :
       \A t \in DOMAIN wg[1][q].lookup_table[w] :
          wg[1][q].lookup_table[w][t] =
             Cell(data, wg[1].geometry, name, RowOf(wg[1].dust_type, w, t))

\* C15: get_extinction applies to the value interpolated from the total
\* optical-depth (tau) grid, built from the 'tau' column, the factor that
\* evaluate applies to the value interpolated from the tau_att grid.
C15_ExtinctionFromTauGrid ==
    (GridQuery /\ last.op = "get_extinction")
        => LET att == WG00_evaluate(wg[1], Vec(last.x.unit, last.x.vals),
                                    last.arg)
           IN  /\ last.raised = "none"
               /\ att.raised = "none"
               /\ GridHoldsColumn("tau", "tau")
               /\ \E f \in {AttFactor} :
                     \A k \in DOMAIN last.x.vals :
                        /\ last.value[k] =
                              RatMul(f, Interp2(wg[1].tau, QueryPoints[k],
                                                last.arg))
                        /\ att.value[k] =
                              RatMul(f, Interp2(wg[1].model, QueryPoints[k],
                                                last.arg))

\* get_extinction returned a value that is not the one evaluate returns for
\* the same query: the two grids differ there
C15_Witness ==
    /\ GridQuery
    /\ last.op = "get_extinction"
    /\ last.raised = "none"
    /\ QueryPoints[1] = 5500
    /\ last.arg = 5
    /\ last.value[1] # WG00_evaluate(wg[1], last.x, last.arg).value[1]

\* the value lies in [0, 1] (fractions are in units of 1e-3)
IsFraction(v) == RatLeq(Rat(0, 1), v) /\ RatLeq(v, Rat(1000, 1))

\* the grid and the column of each of the three fraction operations
FractionGrid(op) ==
    CASE op = "get_fsca" -> <<"fsca", "f(sca)">>
      [] op = "get_fdir" -> <<"fdir", "f(dir)">>
      [] OTHER -> <<"fesc", "f(esc)">>

\* C16: get_fsca, get_fdir and get_fesc each return the value interpolated
\* from their own grid, built from their own column, with no scaling; for a
\* query within the grid the result is in [0, 1], the tabulated fractions
\* being in [0, 1].
C16_FractionsFromOwnGrid ==
    (GridQuery /\ last.op \in {"get_fsca", "get_fdir", "get_fesc"})
        => LET grid == wg[1][FractionGrid(last.op)[1]]
               name == Colname(FractionGrid(last.op)[2],
                               wg[1].dust_distribution)
           IN  /\ last.raised = "none"
               /\ GridHoldsColumn(FractionGrid(last.op)[1], name)
               /\ \A k \in DOMAIN last.x.vals :
                     /\ last.value[k] =
                           Interp2(grid, QueryPoints[k], last.arg)
                     /\ (Inside(wg[1].wvl_grid, QueryPoints[k])
                            /\ Inside(tau_V_grid, last.arg))
                           => IsFraction(last.value[k])

\* get_fdir returned, inside a cell, a value that neither of the other two
\* fraction grids gives there
C16_Witness ==
    /\ GridQuery
    /\ last.op = "get_fdir"
    /\ last.raised = "none"
    /\ QueryPoints[1] = 5495
    /\ last.arg = 5
    /\ last.value[1] # Interp2(wg[1].fsca, 5495, 5)
    /\ last.value[1] # Interp2(wg[1].fesc, 5495, 5)

\* every WG00 instance that can be constructed from the files of `d`
Instances(d) ==
    LET made == {WG00_init(d, tau_V, geometry, dust_type, dust_distribution)
                    .self :
                    tau_V \in TauVArgs, geometry \in GeometryArgs,
                    dust_type \in DustTypeArgs,
                    dust_distribution \in DistributionArgs}
    IN  {m[1] : m \in {s \in made : s # <<>>}}

InstancesOnDisk == [d \in DataSources |-> Instances(d)]

\* the call `op` with wavelength input x on the instance m
TableCall(op, m, x) ==
    IF op = "get_albedo" THEN WG00_get_albedo(m, x)
    ELSE WG00_get_scattering_phase_function(m, x)

\* C17: get_albedo(x) and get_scattering_phase_function(x) depend only on x
\* and the dust type: every other model of the same dust type, whatever its
\* geometry, dust distribution and tau_V, returns for the same x what the
\* call just made returned.
C17_OnlyDustType ==
    (wg # <<>> /\ last.op \in TableOps)
        => \A m \in InstancesOnDisk[data] :
              m.dust_type = wg[1].dust_type
                 => LET r == TableCall(last.op, m, last.x)
                    IN  /\ r.raised = last.raised
                        /\ r.value = last.value

\* an albedo was returned while a model of the same dust type with another
\* geometry, distribution and tau_V exists, and a model of the other dust
\* type returns another value
C17_Witness ==
    /\ wg # <<>>
    /\ last.op = "get_albedo"
    /\ last.raised = "none"
    /\ last.x = Vec("none", <<5495>>)
    /\ \E m \in InstancesOnDisk[data] :
          /\ m.dust_type = wg[1].dust_type
          /\ m.geometry # wg[1].geometry
          /\ m.dust_distribution # wg[1].dust_distribution
          /\ m.tau_V # wg[1].tau_V
    /\ \E m \in InstancesOnDisk[data] :
          /\ m.dust_type # wg[1].dust_type
          /\ WG00_get_albedo(m, last.x).value # last.value

\* C18: no query operation mutates the model: a call of evaluate,
\* attenuate, get_extinction, get_fsca, get_fdir, get_fesc, get_albedo or
\* get_scattering_phase_function, raising or not, leaves the five grids, the
\* wavelength axis, the selection fields and tau_V as they were.
C18_QueriesLeaveModel ==
    [][last'.op \in QueryOps \cup {"attenuate"}
          => /\ wg' # <<>>
             /\ wg # <<>>
             /\ \A f \in {"model", "tau", "fsca", "fdir", "fesc", "wvl_grid",
                          "geometry", "dust_type", "dust_distribution",
                          "tau_V"} : wg'[1][f] = wg[1][f]]_vars

\* a query with a tau_V argument other than the stored parameter has run,
\* one that raised the domain error included
C18_Witness ==
    /\ wg # <<>>
    /\ last.op = "evaluate"
    /\ last.raised = "ValueError"
    /\ last.x = Vec("none", <<1000, 30002>>)
    /\ last.arg # wg[1].tau_V

\* C19: evaluation calls running concurrently on one instance and
\* constructions running concurrently need no synchronization: under every
\* interleaving a finished evaluate holds the outcome it has when run alone,
\* and a finished construction holds the instance built from its own
\* selection.
C19_ThreadsIndependent ==
    \A t \in Threads :
       thr.th[t].pc = "done"
          => LET me == thr.th[t]
             IN  /\ me.job = "evaluate"
                    => /\ me.out.raised
                            = WG00_evaluate(wg[1], me.x, me.arg).raised
                       /\ me.out.value
                            = WG00_evaluate(wg[1], me.x, me.arg).value
                 /\ me.job = "construct"
                    => /\ me.self = WG00_init(data, me.arg, me.sel[1],
                                              me.sel[2], me.sel[3]).self[1]
                       /\ BuiltFrom(me.self, me.self.geometry,
                                    me.self.dust_type,
                                    me.self.dust_distribution)

\* the construction half of C19 on its own
C19_ConstructionsIndependent ==
    \A t \in Threads :
       (thr.th[t].pc = "done" /\ thr.th[t].job = "construct")
          => LET me == thr.th[t]
             IN  /\ me.self = WG00_init(data, me.arg, me.sel[1],
                                        me.sel[2], me.sel[3]).self[1]
                 /\ BuiltFrom(me.self, me.self.geometry, me.self.dust_type,
                              me.self.dust_distribution)

\* the constructor arguments the spec calls invalid (units of 1e-4)
InvalidArgs(params) ==
    {name \in DOMAIN params :
        IF name = "slope"
        THEN params[name] < -30000 \/ params[name] > 30000
        ELSE params[name] < 0}

\* the message the spec gives for an invalid argument
MessageFor(name) ==
    IF name = "slope" THEN "parameter slope must be between -3.0 and 3.0"
    ELSE "parameter " \o name \o " must be positive"

\* C20: constructing a closed-form model with Av, x0, gamma or ampl below 0
\* raises InputParameterError 'parameter <name> must be positive', with
\* slope outside [-3.0, 3.0] InputParameterError 'parameter slope must be
\* between -3.0 and 3.0'; 0 for Av, x0, gamma, ampl and -3.0 and 3.0 for
\* slope are accepted.
C20_ConstructorValidation ==
    last.op = "curve"
        => LET kind == last.sel[1]
               params == last.sel[2]
           IN  IF InvalidArgs(params) = {}
               THEN /\ last.raised = "none"
                    /\ curve = <<[kind |-> kind, params |-> params]>>
               ELSE /\ last.raised = "InputParameterError"
                    /\ \E name \in InvalidArgs(params) :
                          last.msg = MessageFor(name)
                    /\ curve = <<>>

\* a constructor call was rejected for its slope just above 3.0 alone, its
\* other arguments, 0 among them, raising nothing
C20_Witness ==
    /\ last.op = "curve"
    /\ last.sel[1] = "SBL18"
    /\ last.sel[2] = [x0 |-> 2175, gamma |-> 0, ampl |-> 0, slope |-> 30001,
                      Av |-> 0]
    /\ last.raised = "InputParameterError"
    /\ last.msg = "parameter slope must be between -3.0 and 3.0"

\* the micron equivalent of a magnitude given in a unit (1e-4 micron)
MicronEquivalent(unit, v) ==
    CASE unit = "1/micron" -> 1000000 \div v
      [] unit = "angstrom" -> v \div 10
      [] OTHER -> v

\* the validity domain of a model
DomainOf(kind) ==
    CASE kind = "WG00" -> x_range_WG00
      [] kind = "C00" -> x_range_C00
      [] kind = "L02" -> x_range_L02
      [] kind = "N09" -> x_range_N09
      [] OTHER -> x_range_SBL18

\* the range check of a model in the trace of its evaluate, and the last
\* stage of its computation
RangeStage(kind) == IF kind = "WG00" THEN "range" ELSE kind \o ".range"

ComputeStage(kind) ==
    CASE kind = "WG00" -> "model"
      [] kind = "C00" -> "C00.k_lambda"
      [] kind = "L02" -> "L02.k_lambda"
      [] kind = "N09" -> "power_law"
      [] OTHER -> "uv_bump"

\* C21: evaluate of every model normalizes x to micron, range-validates the
\* normalized value, then computes: the input is rejected (ValueError) if
\* and only if the micron equivalent of one of its elements lies outside
\* the domain of the model, whatever unit it was given in, and for a
\* rejected input only the range check has run.
C21_NormalizeValidateCompute ==
    last.op = "unit_evaluate"
        => LET kind == last.sel[1]
               accepted ==
                   \A k \in DOMAIN last.x.vals :
                      InRange(MicronEquivalent(last.x.unit, last.x.vals[k]),
                              DomainOf(kind))
           IN  /\ last.raised = "ValueError" <=> ~accepted
               /\ ~accepted
                     => /\ last.trace = <<RangeStage(kind)>>
                        /\ last.value = <<>>
               /\ last.raised = "none"
                     => /\ last.trace[1] = RangeStage(kind)
                        /\ last.trace[Len(last.trace)] = ComputeStage(kind)
                        /\ Len(last.value) = Len(last.x.vals)

\* a wavenumber whose micron equivalent is in the domain was accepted and
\* computed by L02, its magnitude taken as a wavelength being outside
C21_Witness ==
    /\ last.op = "unit_evaluate"
    /\ last.sel = <<"L02">>
    /\ last.x = Vec("1/micron", <<1000>>)
    /\ ~InRange(100 * last.x.vals[1], x_range_L02)
    /\ last.raised = "none"
    /\ Len(last.value) = 1

\* the factors Av is multiplied by
AvFactors == {0, 1, 2, 3}

\* the call just made was c(x) on a closed-form model and returned
CurveReturned ==
    /\ last.op = "curve_call"
    /\ last.raised = "none"
    /\ curve # <<>>

\* the same model with its Av multiplied by c
ScaledAv(self, c) == [self EXCEPT !.params.Av = c * self.params.Av]

\* C22: the result of a closed-form curve is linear in Av at every valid
\* x: evaluate(x, c * Av) = c * evaluate(x, Av) for c >= 0, and Av = 0
\* gives 0 everywhere.
C22_LinearInAv ==
    CurveReturned
        => \A k \in DOMAIN last.value :
              /\ curve[1].params.Av = 0 => QIsZero(last.value[k])
              /\ \A c \in AvFactors :
                    QEq(Curve_call(ScaledAv(curve[1], c), last.x).value[k],
                        QMul(Q(c, 1), last.value[k]))

\* C22 away from the points where the bump is 0/0
C22_LinearWhereDefined ==
    (CurveReturned /\ \A k \in DOMAIN last.value : ~IsNaN(last.value[k]))
        => \A k \in DOMAIN last.value :
              /\ curve[1].params.Av = 0 => QIsZero(last.value[k])
              /\ \A c \in AvFactors :
                    QEq(Curve_call(ScaledAv(curve[1], c), last.x).value[k],
                        QMul(Q(c, 1), last.value[k]))

C24_ColumnSuffix ==
    (Constructed /\ last.raised = "none")
        => /\ wg[1].dust_distribution = "clumpy"
              => /\ GridHoldsColumn("model", "tau_att_c")
                 /\ GridHoldsColumn("fsca", "f(sca)_c")
                 /\ GridHoldsColumn("fdir", "f(dir)_c")
                 /\ GridHoldsColumn("fesc", "f(esc)_c")
           /\ wg[1].dust_distribution = "homogeneous"
              => /\ GridHoldsColumn("model", "tau_att_h")
                 /\ GridHoldsColumn("fsca", "f(sca)_h")
                 /\ GridHoldsColumn("fdir", "f(dir)_h")
                 /\ GridHoldsColumn("fesc", "f(esc)_h")
           /\ wg[1].dust_distribution \in {"clumpy", "homogeneous"}
           /\ GridHoldsColumn("tau", "tau")

\* a homogeneous SMC model was constructed from the complete file
C24_Witness ==
    /\ Constructed
    /\ last.raised = "none"
    /\ CompleteFile
    /\ wg[1].dust_distribution = "homogeneous"
    /\ wg[1].dust_type = "smc"
    /\ Len(wg[1].fdir.lookup_table) = steps

\* C25: _positive_klambda returns an array without a negative element that
\* equals klam where klam >= 0 and is 0 where klam < 0; it warns exactly when
\* klam has a negative element; applied to its own output it returns that
\* output again and does not warn.
HasNegative(klam) == \E i \in DOMAIN klam : ~IsNaN(klam[i]) /\ klam[i].neg

Clipped(klam, out) ==
    /\ DOMAIN out = DOMAIN klam
    /\ \A i \in DOMAIN klam :
          /\ ~(~IsNaN(out[i]) /\ out[i].neg)
          /\ GeqZero(klam[i]) => out[i] = klam[i]
          /\ (~IsNaN(klam[i]) /\ klam[i].neg) => out[i] = Q(0, 1)

ClipContract(p) ==
    /\ p.calls >= 1
         => /\ Clipped(p.klam, p.first.out)
            /\ p.first.warned <=> HasNegative(p.klam)
    /\ p.calls = 2
         => /\ p.second.out = p.first.out
            /\ ~p.second.warned

C25_ClipWarnsOnNegativeOnly ==
    (probe # <<>> /\ probe[1].calls >= 1) => ClipContract(probe[1])

\* the same contract restricted to arrays without a nan element
C25_ClipOfNumbers ==
    (probe # <<>> /\ probe[1].calls >= 1
     /\ \A i \in DOMAIN probe[1].klam : ~IsNaN(probe[1].klam[i]))
        => ClipContract(probe[1])

C25_NumbersClipped ==
    /\ probe # <<>>
    /\ probe[1].calls = 2
    /\ HasNegative(probe[1].klam)
    /\ \E i \in DOMAIN probe[1].klam : GeqZero(probe[1].klam[i])
    /\ \A i \in DOMAIN probe[1].klam : ~IsNaN(probe[1].klam[i])

\* the two floats are the same value (nan counted as the same as nan)
SameValue(a, b) == (IsNaN(a) /\ IsNaN(b)) \/ QEq(a, b)

\* the call just made was c(x) on an N09 or SBL18 model and returned
BumpCurveReturned == CurveReturned /\ curve[1].kind \in {"N09", "SBL18"}

\* the reddening curves of N09 and of SBL18 for the parameters of the model
\* and the wavelengths of the call just made
AsN09 ==
    N09_k_lambda(last.x, curve[1].params.x0, curve[1].params.gamma,
                 curve[1].params.ampl, curve[1].params.slope)

AsSBL18 ==
    SBL18_k_lambda(last.x, curve[1].params.x0, curve[1].params.gamma,
                   curve[1].params.ampl, curve[1].params.slope)

\* the value returned by the call is the Av scaling of the reddening curve
\* of the model's own class
OwnCurve ==
    LET own == IF curve[1].kind = "N09" THEN AsN09 ELSE AsSBL18
    IN  /\ own.raised = "none"
        /\ \A k \in DOMAIN last.value :
              SameValue(last.value[k],
                        ScaleByAv(own.value, curve[1].params.Av)[k])

IdenticalCurves ==
    \A k \in DOMAIN last.value : SameValue(AsN09.value[k], AsSBL18.value[k])

DifferentCurvesOff055 ==
    \A k \in DOMAIN last.value :
        ToMicron(last.x).vals[k] # 5500
            => ~SameValue(AsN09.value[k], AsSBL18.value[k])

\* C26 as stated: N09 and SBL18 return identical reddening curves whenever
\* slope = 0 or ampl = 0, and for ampl > 0 and slope # 0 they differ at
\* every x other than 0.55 micron.
C26_SameUnlessBumpAndSlope ==
    BumpCurveReturned
        => /\ OwnCurve
           /\ (curve[1].params.slope = 0 \/ curve[1].params.ampl = 0)
                 => IdenticalCurves
           /\ (curve[1].params.ampl > 0 /\ curve[1].params.slope # 0)
                 => DifferentCurvesOff055

\* C26: N09 and SBL18 return identical reddening curves whenever slope = 0
\* or ampl = 0, and for ampl > 0, gamma > 0 and slope # 0 they differ at
\* every x other than 0.55 micron (with gamma = 0 the bump is 0 or 0/0 and
\* the two curves coincide).
C26_SameUnlessWideBumpAndSlope ==
    BumpCurveReturned
        => /\ OwnCurve
           /\ (curve[1].params.slope = 0 \/ curve[1].params.ampl = 0)
                 => IdenticalCurves
           /\ (curve[1].params.ampl > 0 /\ curve[1].params.gamma > 0
               /\ curve[1].params.slope # 0)
                 => DifferentCurvesOff055
           /\ (curve[1].params.gamma = 0) => IdenticalCurves

C26_Witness ==
    /\ BumpCurveReturned
    /\ curve[1].kind = "SBL18"
    /\ curve[1].params.ampl > 0
    /\ curve[1].params.gamma > 0
    /\ curve[1].params.slope < 0
    /\ last.x = Vec("none", <<1000, 5500>>)
    /\ ~SameValue(AsN09.value[1], AsSBL18.value[1])
    /\ SameValue(AsN09.value[2], AsSBL18.value[2])

\* the call just made was c(x) on an N09 or SBL18 model with an array that
\* passes the model's own range check
BumpCallInRange ==
    /\ last.op = "curve_call"
    /\ curve # <<>>
    /\ curve[1].kind \in {"N09", "SBL18"}
    /\ ~last.x.scalar
    /\ test_valid_x_range(ToMicron(last.x), DomainOf(curve[1].kind),
                          curve[1].kind) = "none"

\* C27: for every x that passes the range check of N09 or SBL18 the
\* delegated calls raise no domain error: the elements with x > 0.15 are
\* the ones given to C00.k_lambda and lie in C00's domain, the elements
\* with x <= 0.15 are the ones given to L02.k_lambda and lie in L02's
\* domain, and every element is given to exactly one of the two.
C27_DelegationInDomain ==
    BumpCallInRange
        => LET x == ToMicron(last.x)
               toC00 == Masked(x, MaskC00(x))
               toL02 == Masked(x, MaskL02(x))
           IN  /\ last.raised = "none"
               /\ last.trace[2] = "C00.range" /\ last.trace[3] = "C00.k_lambda"
               /\ last.trace[4] = "L02.range" /\ last.trace[5] = "L02.k_lambda"
               /\ C00_k_lambda(toC00).raised = "none"
               /\ L02_k_lambda(toL02).raised = "none"
               /\ \A i \in DOMAIN x.vals :
                     /\ MaskC00(x)[i] <=> x.vals[i] > 1500
                     /\ MaskL02(x)[i] <=> x.vals[i] <= 1500
                     /\ MaskC00(x)[i] <=> ~MaskL02(x)[i]
               /\ Len(toC00.vals) + Len(toL02.vals) = Len(x.vals)
               /\ \A j \in DOMAIN toC00.vals :
                     InRange(toC00.vals[j], x_range_C00)
               /\ \A j \in DOMAIN toL02.vals :
                     InRange(toL02.vals[j], x_range_L02)

C27_Witness ==
    /\ BumpCallInRange
    /\ last.raised = "none"
    /\ \E i, j \in DOMAIN last.x.vals :
          MaskC00(ToMicron(last.x))[i] /\ MaskL02(ToMicron(last.x))[j]

\* the two wavelength ranges of C00.k_lambda
InUv2Vis(v) == 1200 <= v /\ v < 6300

InNir(v) == 6300 <= v /\ v < 22000

\* the call just made was c(x) on a C00 model with an array and returned
C00Returned == CurveReturned /\ curve[1].kind = "C00" /\ ~last.x.scalar

\* C28: the two branches of C00.k_lambda are disjoint and cover every
\* accepted x but the upper bound of the domain: each accepted x other
\* than 2.2 micron gets the formula of exactly one branch, and at
\* x = 2.2 micron, which is accepted, neither applies, k_lambda is 0 and
\* C00 evaluates to 0 whatever Av is.
C28_BranchesMissUpperBound ==
    /\ (last.op = "curve_call" /\ curve # <<>> /\ curve[1].kind = "C00"
        /\ last.x = Vec("none", <<22000>>))
          => last.raised = "none"
    /\ C00Returned
          => LET x == ToMicron(last.x)
                 k == C00_k_lambda(x)
             IN  \A i \in DOMAIN x.vals :
                    /\ ~(InUv2Vis(x.vals[i]) /\ InNir(x.vals[i]))
                    /\ (InUv2Vis(x.vals[i]) \/ InNir(x.vals[i]))
                          <=> x.vals[i] # 22000
                    /\ InUv2Vis(x.vals[i])
                          => QEq(k.value[i], C00_uv2vis(Micron(x.vals[i])))
                    /\ InNir(x.vals[i])
                          => QEq(k.value[i], C00_nir(Micron(x.vals[i])))
                    /\ x.vals[i] = 22000
                          => /\ QIsZero(k.value[i])
                             /\ QIsZero(last.value[i])
                    /\ QEq(last.value[i],
                           ScaleByAv(k.value, curve[1].params.Av)[i])

C28_Witness ==
    /\ C00Returned
    /\ curve[1].params.Av = 20000
    /\ last.x = Vec("none", <<22000>>)
    /\ QIsZero(last.value[1])

GetOps == {"get_extinction", "get_fsca", "get_fdir", "get_fesc"}

\* the optical depths a model can hold
StoredTauV == {t \in TauVArgs : tau_V_validator(t) = "none"}

\* C29: get_extinction, get_fsca, get_fdir and get_fesc compute from the
\* tau_V argument only: the same call on the model holding any other
\* tau_V gives the same result, and the argument is not validated, so a
\* call with a valid x on a model built from a complete file returns the
\* grid's value at the argument even when the argument is outside
\* [0.25, 50].
C29_ArgumentOnly ==
    (last.op \in GetOps /\ wg # <<>>)
        => /\ last.raised # "InputParameterError"
           /\ \A t \in StoredTauV :
                 LET other == WG00_query(last.op, [wg[1] EXCEPT !.tau_V = t],
                                         last.x, last.arg)
                 IN  /\ other.raised = last.raised
                     /\ other.value = last.value
           /\ (CompleteFile /\ InDomain(last.x))
                 => /\ last.raised = "none"
                    /\ Len(last.value) = Len(last.x.vals)
                    /\ \A k \in DOMAIN last.value :
                          last.value[k] =
                             Converted(last.op,
                                       Interp2(GridOf(last.op),
                                               QueryPoints[k], last.arg))

\* get_fsca with tau_V = 51 on a model that holds another tau_V returned
C29_Witness ==
    /\ last.op = "get_fsca"
    /\ wg # <<>>
    /\ CompleteFile
    /\ last.raised = "none"
    /\ last.arg = 204
    /\ tau_V_validator(last.arg) # "none"
    /\ wg[1].tau_V = 5
    /\ Len(last.value) = 1
    /\ last.value[1] # WG00_get_fsca(wg[1], last.x, wg[1].tau_V).value[1]

\* both runs of the loop have left it
LoopsDone == \A i \in DOMAIN probe : probe[i].pc = "done"

\* the rows read by run i
RowsRead(i) ==
    {probe[i].list[j][k] :
       <<j, k>> \in {<<j, k>> \in (DOMAIN probe[i].list) \X (1..steps) :
                       k <= Len(probe[i].list[j])}}

\* the number of reads of row r by run i
Reads(i, r) ==
    Cardinality({<<j, k>> \in (DOMAIN probe[i].list) \X (1..steps) :
                   k <= Len(probe[i].list[j]) /\ probe[i].list[j][k] = r})

\* the cursor of a run in the loop: start plus 50 per pass made
CursorSteps ==
    \A i \in DOMAIN probe :
        probe[i].pc # "start"
            => probe[i].counter =
                  (IF probe[i].dust_type = "mw" THEN 0 ELSE steps)
                  + 2 * steps * Len(probe[i].list)

\* a run that has left the loop made its last pass below the row count,
\* stands at or above it, and holds the slices of the loop of __init__
StopsAtRowCount ==
    \A i \in DOMAIN probe :
        probe[i].pc = "done"
            => /\ probe[i].counter >= probe[i].len_data
               /\ probe[i].list # <<>>
                     => probe[i].counter - 2 * steps < probe[i].len_data
               /\ probe[i].list =
                     SliceLoop(RowColumn(probe[i].len_data),
                               IF probe[i].dust_type = "mw" THEN 0 ELSE steps,
                               probe[i].len_data, <<>>)

\* for 2 * 25 * T rows: T passes for either dust type, and each row read
\* exactly once by exactly one of the two runs
WholeTableSplit ==
    (LoopsDone /\ probe[1].len_data % (2 * steps) = 0)
        => /\ \A i \in DOMAIN probe :
                 Len(probe[i].list) = probe[i].len_data \div (2 * steps)
           /\ RowsRead(1) \cap RowsRead(2) = {}
           /\ RowsRead(1) \cup RowsRead(2) = 0..(probe[1].len_data - 1)
           /\ \A r \in 0..(probe[1].len_data - 1) :
                 Reads(1, r) + Reads(2, r) = 1

\* C30: the row-cursor loop terminates for every table length: the cursor
\* starts at 0 (MW) or 25 (SMC), grows by 50 per pass and the loop stops
\* once it reaches the row count; for a table of 2 * 25 * T rows it makes
\* exactly T passes for either dust type, and the rows read for MW and for
\* SMC are disjoint and together cover every row exactly once.
C30_CursorLoopTerminates ==
    /\ <>LoopsDone
    /\ [](CursorSteps /\ StopsAtRowCount /\ WholeTableSplit)

\* both runs have left the loop over a table of three optical depths
C30_Witness ==
    /\ LoopsDone
    /\ probe[1].len_data = 2 * steps * MaxSlices
    /\ Len(probe[1].list) = MaxSlices
    /\ Len(probe[2].list) = MaxSlices
    /\ probe[2].list[MaxSlices][steps] = probe[1].len_data - 1

====
